---- MODULE Spec2Model ----
(***************************************************************************)
(* A model of the statistical core of xephyr-insights (src/lib/stats.ts).  *)
(*                                                                         *)
(* The core is a library of pure functions over a Table.  The state        *)
(* machine is a caller of that library: the initial state holds the        *)
(* arguments (a raw table, or two series), and every action is one call of *)
(* an exported function, which stores what the function returned.          *)
(*                                                                         *)
(* JavaScript values are tagged records:                                   *)
(*   null, undefined, a finite number, NaN, a string, a Date (which has an *)
(*   identity, because a Set compares objects by reference).               *)
(* Numbers are small integers and every quotient is kept as an exact       *)
(* fraction (Rat); a square root is kept as the fraction it is the root    *)
(* of.  The rounding of IEEE-754 doubles is not modelled.                  *)
(***************************************************************************)
EXTENDS Integers, Sequences, FiniteSets, TLC

VARIABLES
  raw,    \* the Table an ingestion path hands over (rows of raw cells)
  table,  \* the Table the analysis functions receive (NoTable before coerceTable)
  xs,     \* first series argument of a series function
  ys,     \* second series argument of a series function
  topK,   \* the k argument of topCorrelations
  fn,     \* the function called last ("init" before any call)
  ret,    \* what that call returned
  route   \* the AI route: environment, request in progress, response

vars == <<raw, table, xs, ys, topK, fn, ret, route>>

(***************************************************************************)
(* Bounds of the model.                                                    *)
(***************************************************************************)
MaxRows == 4        \* rows of a table given to profileTable
MaxLen == 3         \* length of a series given to pearson / spearman
MaxObs == 5         \* length of the series given to cramersV
MaxPairs == 4       \* length of the series given to etaSquared
MaxTopRows == 3     \* rows of a table given to topCorrelations
MaxTrendRows == 3   \* rows of a table with missing and invalid cells given to firstDateTrend
MaxScan == 7        \* rows of a complete table given to firstDateTrend
MaxQualityRows == 3 \* rows of a table given to duplicateRows / categoryImbalance
MaxSmallRows == 2   \* rows of a table with missing cells given to generateInsightsAll
MaxWideRows == 6    \* rows of a table of seven columns given to generateInsightsAll
MaxFrameRows == 3   \* rows of a table given to every function in turn

(***************************************************************************)
(* JavaScript values.                                                      *)
(***************************************************************************)
Null == [k |-> "null"]
Undefined == [k |-> "undefined"]
NaN == [k |-> "NaN"]
Num(n) == [k |-> "number", v |-> n]
Str(s) == [k |-> "string", s |-> s]
DateObj(t, id) == [k |-> "Date", t |-> t, id |-> id]

IsFinite(v) == v.k = "number"

\* Decimal digits of a small natural number, as String(n) prints it.
Digit == <<"0", "1", "2", "3", "4", "5", "6", "7", "8", "9">>

RECURSIVE DecStr(_)
DecStr(n) == IF n < 10 THEN Digit[n + 1] ELSE DecStr(n \div 10) \o Digit[(n % 10) + 1]

\* The numbers whose decimal spelling occurs as a string in the model.
NumeralRange == 0 .. 9

\* NUMERIC_RE = /^-?\d+(?:\.\d+)?$/ on the model's strings: the numerals.
NUMERIC_RE(s) == \E n \in NumeralRange : DecStr(n) = s

\* Number(s) of a string that NUMERIC_RE accepts.
NumeralValue(s) == CHOOSE n \in NumeralRange : DecStr(n) = s

\* The date strings of the model and the timestamp Date.parse gives each
\* (counted in days from 2023-12-31 instead of milliseconds from 1970).
DateStrings == {"2024-01-01", "2024-01-02"}

DateParse(s) ==
  IF s = "2024-01-01" THEN Num(1)
  ELSE IF s = "2024-01-02" THEN Num(2)
  ELSE NaN

\* String.prototype.trim: no string of the model has surrounding white space.
Trim(s) == s

\* Number(v), the conversion `colVals.map(Number)` and `Number(r[a])` apply.
ToNumber(v) ==
  CASE v.k = "null" -> Num(0)
    [] v.k = "undefined" -> NaN
    [] v.k = "number" -> v
    [] v.k = "NaN" -> NaN
    [] v.k = "Date" -> Num(v.t)
    [] v.k = "string" ->
         IF Trim(v.s) = "" THEN Num(0)
         ELSE IF NUMERIC_RE(Trim(v.s)) THEN Num(NumeralValue(Trim(v.s)))
         ELSE NaN

\* String(v), the key of a value in a Record<string, ...>.
JsString(v) ==
  CASE v.k = "null" -> "null"
    [] v.k = "undefined" -> "undefined"
    [] v.k = "number" -> DecStr(v.v)
    [] v.k = "NaN" -> "NaN"
    [] v.k = "Date" -> IF v.t = 1 THEN "Mon Jan 01 2024" ELSE "Tue Jan 02 2024"
    [] v.k = "string" -> v.s

(***************************************************************************)
(* Exact fractions.                                                        *)
(***************************************************************************)
Abs(i) == IF i < 0 THEN -i ELSE i

RECURSIVE GCD(_, _)
GCD(a, b) == IF b = 0 THEN a ELSE GCD(b, a % b)

\* The fraction n/d (d # 0) in lowest terms with a positive denominator.
Rat(n, d) ==
  LET g == GCD(Abs(n), Abs(d))
      s == IF d < 0 THEN -1 ELSE 1
  IN  [n |-> s * (n \div g), d |-> s * (d \div g)]

RInt(i) == [n |-> i, d |-> 1]
RAdd(p, q) == Rat(p.n * q.d + q.n * p.d, p.d * q.d)
RSub(p, q) == Rat(p.n * q.d - q.n * p.d, p.d * q.d)
RMul(p, q) == Rat(p.n * q.n, p.d * q.d)
RDiv(p, q) == Rat(p.n * q.d, p.d * q.n)
RLt(p, q) == p.n * q.d < q.n * p.d
RLe(p, q) == p.n * q.d <= q.n * p.d
RZero == RInt(0)
ROne == RInt(1)

(***************************************************************************)
(* Sequence helpers (Array.prototype.reduce / sort).                       *)
(***************************************************************************)
RECURSIVE Sum(_)
Sum(seq) == IF seq = <<>> THEN 0 ELSE seq[1] + Sum(Tail(seq))

\* Array.prototype.sort is stable.  A comparator is given as le[a][b], true
\* when the comparator does not put element b before element a.  InsertSorted
\* puts index e, which comes after all of `sorted` in the array, behind the
\* indices it must not overtake.
RECURSIVE InsertSorted(_, _, _)
InsertSorted(le, e, sorted) ==
  IF sorted = <<>> THEN <<e>>
  ELSE IF le[sorted[1]][e] THEN <<sorted[1]>> \o InsertSorted(le, e, Tail(sorted))
  ELSE <<e>> \o sorted

\* The order in which a stable sort leaves the indices 1 .. n.
RECURSIVE SortPerm(_, _)
SortPerm(le, n) ==
  IF n = 0 THEN <<>> ELSE InsertSorted(le, n, SortPerm(le, n - 1))

\* [...nums].sort((a, b) => a - b)
SortNums(nums) ==
  LET le == [a \in 1 .. Len(nums) |-> [b \in 1 .. Len(nums) |-> nums[a] <= nums[b]]]
      perm == SortPerm(le, Len(nums))
  IN  [p \in 1 .. Len(nums) |-> nums[perm[p]]]

(***************************************************************************)
(* Tables.  A row maps the keys it has to cells; a key it omits reads as   *)
(* undefined.                                                              *)
(***************************************************************************)
NoTable == [columns |-> <<>>, rows |-> <<>>, none |-> TRUE]

Get(r, c) == IF c \in DOMAIN r THEN r[c] ELSE Undefined

\* r?.[c] ?? null
GetOrNull(r, c) == IF Get(r, c) \in {Null, Undefined} THEN Null ELSE Get(r, c)

(***************************************************************************)
(* Type coercion and detection.                                            *)
(***************************************************************************)
\* coerceValue without the empty string among the missing values.
coerceValueKeepsEmpty(v, id) ==
  IF v = Null \/ v = Undefined THEN Null
  ELSE IF v.k = "number" THEN v
  ELSE IF v.k = "string" THEN
    LET s == Trim(v.s)
    IN  IF NUMERIC_RE(s) THEN Num(NumeralValue(s))
        ELSE IF DateParse(s) # NaN THEN DateObj(DateParse(s).v, id)
        ELSE v
  ELSE v

\* coerceValue(v); `id` is the identity of the Date object it may allocate.
coerceValue(v, id) ==
  IF v = Null \/ v = Undefined \/ v = Str("") THEN Null
  ELSE IF v.k = "number" THEN v
  ELSE IF v.k = "string" THEN
    LET s == Trim(v.s)
    IN  IF NUMERIC_RE(s) THEN Num(NumeralValue(s))
        ELSE IF DateParse(s) # NaN THEN DateObj(DateParse(s).v, id)
        ELSE v
  ELSE v

coerceTable(t) ==
  [columns |-> t.columns,
   rows |-> [i \in 1 .. Len(t.rows) |->
               [c \in {t.columns[j] : j \in 1 .. Len(t.columns)} |->
                  coerceValue(Get(t.rows[i], c), <<i, c>>)]]]

\* The three counters of inferType's loop.
LooksNumber(v) == \/ v.k = "number"
                  \/ v.k = "string" /\ NUMERIC_RE(v.s)

LooksDate(v) == \/ v.k = "Date"
                \/ v.k = "string" /\ ~NUMERIC_RE(v.s) /\ DateParse(v.s) # NaN

LooksString(v) == v # Null /\ ~LooksNumber(v) /\ ~LooksDate(v)

Max3(a, b, c) ==
  IF a >= b /\ a >= c THEN a ELSE IF b >= c THEN b ELSE c

\* inferType with the tie-break of date and number exchanged.
inferTypeDateFirst(values) ==
  LET n == Len(SelectSeq(values, LooksNumber))
      d == Len(SelectSeq(values, LooksDate))
      s == Len(SelectSeq(values, LooksString))
      max == Max3(n, s, d)
  IN  IF max = 0 THEN "unknown"
      ELSE IF max = d THEN "date"
      ELSE IF max = n THEN "number"
      ELSE "string"

inferType(values) ==
  LET n == Len(SelectSeq(values, LooksNumber))
      d == Len(SelectSeq(values, LooksDate))
      s == Len(SelectSeq(values, LooksString))
      max == Max3(n, s, d)
  IN  IF max = 0 THEN "unknown"
      ELSE IF max = n THEN "number"
      ELSE IF max = d THEN "date"
      ELSE "string"

(***************************************************************************)
(* Basic statistics.                                                       *)
(***************************************************************************)
\* Math.sqrt(v) of a fraction v >= 0, kept as the fraction under the root.
Sqrt(v) == [sqrtOf |-> v]

\* Math.round of a fraction: the nearest integer, a half rounding up.
MathRound(p) == (2 * p.n + p.d) \div (2 * p.d)

\* Math.floor of a fraction.
MathFloor(p) == p.n \div p.d

\* quantile(sortedNums, q): sortedNums is a sequence of integers; index 0 of
\* the array is index 1 of the sequence.
quantile(sortedNums, q) ==
  IF Len(sortedNums) = 0 THEN NaN
  ELSE
    LET pos == RMul(RInt(Len(sortedNums) - 1), q)
        base == MathFloor(pos)
        rest == RSub(pos, RInt(base))
    IN  IF base + 1 < Len(sortedNums)
        THEN RAdd(RInt(sortedNums[base + 1]),
                  RMul(rest, RInt(sortedNums[base + 2] - sortedNums[base + 1])))
        ELSE RInt(sortedNums[base + 1])

median(sortedNums) == quantile(sortedNums, Rat(1, 2))

\* (x - mean) ** 2
SqDev(x, mean) == RMul(RSub(RInt(x), mean), RSub(RInt(x), mean))

RECURSIVE SumSqDev(_, _)
SumSqDev(nums, mean) ==
  IF nums = <<>> THEN RZero
  ELSE RAdd(SqDev(nums[1], mean), SumSqDev(Tail(nums), mean))

stdev(nums, mean) ==
  IF Len(nums) <= 1 THEN Sqrt(RZero)
  ELSE Sqrt(RDiv(SumSqDev(nums, mean), RInt(Len(nums) - 1)))

\* x => Math.abs((x - mean) / sd) > 3, for sd # 0
ZAbove3(x, mean, sd) == RLt(RMul(RInt(9), sd.sqrtOf), SqDev(x, mean))

\* The cells of column c, a column a row omits reading as null.
ColVals(t, c) == [i \in 1 .. Len(t.rows) |-> GetOrNull(t.rows[i], c)]

\* colVals.map(Number).filter(Number.isFinite), as integers
FiniteNums(colVals) ==
  LET conv == [i \in 1 .. Len(colVals) |-> ToNumber(colVals[i])]
      fin == SelectSeq(conv, IsFinite)
  IN  [i \in 1 .. Len(fin) |-> fin[i].v]

\* The NumericSummary profileTable builds for a column typed number.
NumericSummary(colVals) ==
  LET nums == FiniteNums(colVals)
      sorted == SortNums(nums)
      n == Len(nums)
      mean == IF n # 0 THEN Rat(Sum(nums), n) ELSE RZero
      med == IF n # 0 THEN median(sorted) ELSE RZero
      min == IF n # 0 THEN sorted[1] ELSE 0
      max == IF n # 0 THEN sorted[Len(sorted)] ELSE 0
      sd == stdev(nums, mean)
      q1 == IF n # 0 THEN quantile(sorted, Rat(1, 4)) ELSE RZero
      q3 == IF n # 0 THEN quantile(sorted, Rat(3, 4)) ELSE RZero
      iqr == RSub(q3, q1)
      lo == RSub(q1, RMul(Rat(3, 2), iqr))
      hi == RAdd(q3, RMul(Rat(3, 2), iqr))
      IqrOut(x) == RLt(RInt(x), lo) \/ RLt(hi, RInt(x))
      ZOut(x) == ZAbove3(x, mean, sd)
  IN  [n |-> n, mean |-> mean, median |-> med, min |-> min, max |-> max,
       stdev |-> sd, q1 |-> q1, q3 |-> q3, iqr |-> iqr,
       outliersIqr |-> Len(SelectSeq(nums, IqrOut)),
       outliersZ |-> IF sd # Sqrt(RZero) THEN Len(SelectSeq(nums, ZOut)) ELSE 0]

\* The ColumnProfile of one column.
ColumnProfile(t, c) ==
  LET colVals == ColVals(t, c)
      IsNull(v) == v = Null
      missing == Len(SelectSeq(colVals, IsNull))
      rowCount == IF Len(t.rows) > 1 THEN Len(t.rows) ELSE 1
      type == inferType(colVals)
  IN  [name |-> c,
       type |-> type,
       missingPct |-> MathRound(Rat(missing * 100, rowCount)),
       distinct |-> Cardinality({colVals[i] : i \in {j \in 1 .. Len(colVals) : colVals[j] # Null}}),
       numeric |-> IF type = "number" THEN NumericSummary(colVals) ELSE Null]

profileTable(t) == [j \in 1 .. Len(t.columns) |-> ColumnProfile(t, t.columns[j])]

(***************************************************************************)
(* Associations.  A series is a sequence of fractions.                     *)
(***************************************************************************)
RECURSIVE RSum(_)
RSum(seq) == IF seq = <<>> THEN RZero ELSE RAdd(seq[1], RSum(Tail(seq)))

\* The finite number sign * sqrt(sq), sq a fraction >= 0: what num / den is
\* when den is the square root of sq's denominator.
Root(sign, sq) == [k |-> "number", sign |-> IF sq = RZero THEN 0 ELSE sign, sq |-> sq]

Sign(p) == IF p.n > 0 THEN 1 ELSE IF p.n < 0 THEN -1 ELSE 0

Min(a, b) == IF a <= b THEN a ELSE b

\* The body of pearson once n paired values are known to be there (minN is
\* the least n for which a correlation is computed).
PearsonFrom(x, y, minN) ==
  LET n == Min(Len(x), Len(y))
  IN  IF n < minN THEN NaN
      ELSE
        LET xn == SubSeq(x, 1, n)
            yn == SubSeq(y, 1, n)
            mx == RDiv(RSum(xn), RInt(n))
            my == RDiv(RSum(yn), RInt(n))
            dx == [i \in 1 .. n |-> RSub(xn[i], mx)]
            dy == [i \in 1 .. n |-> RSub(yn[i], my)]
            num == RSum([i \in 1 .. n |-> RMul(dx[i], dy[i])])
            dx2 == RSum([i \in 1 .. n |-> RMul(dx[i], dx[i])])
            dy2 == RSum([i \in 1 .. n |-> RMul(dy[i], dy[i])])
            den == Sqrt(RMul(dx2, dy2))
        IN  IF den # Sqrt(RZero)
            THEN Root(Sign(num), RDiv(RMul(num, num), den.sqrtOf))
            ELSE NaN

\* pearson with the sample-size guard off by one.
pearsonFromTwo(x, y) == PearsonFrom(x, y, 2)

pearson(x, y) == PearsonFrom(x, y, 3)

\* idx of rank: the indices of vals in ascending order of value (stable).
RankOrder(vals) ==
  LET le == [a \in 1 .. Len(vals) |-> [b \in 1 .. Len(vals) |-> vals[a] <= vals[b]]]
  IN  SortPerm(le, Len(vals))

\* rank without the averaging of ties: the position in the sorted order.
rankOrdinal(vals) ==
  LET idx == RankOrder(vals)
  IN  [m \in 1 .. Len(vals) |-> RInt(CHOOSE p \in 1 .. Len(vals) : idx[p] = m)]

\* rank(vals): average 1-based ranks.  The positions i .. j (0-based) of a run
\* of equal values all get (i + j + 2) / 2.
rank(vals) ==
  LET idx == RankOrder(vals)
      Run(m) == {p \in 1 .. Len(vals) : vals[idx[p]] = vals[m]}
      First(m) == CHOOSE p \in Run(m) : \A q \in Run(m) : p <= q
      Last(m) == CHOOSE p \in Run(m) : \A q \in Run(m) : q <= p
  IN  [m \in 1 .. Len(vals) |-> Rat((First(m) - 1) + (Last(m) - 1) + 2, 2)]

\* A number[] of integers as a series of fractions.
Series(ints) == [i \in 1 .. Len(ints) |-> RInt(ints[i])]

\* spearman(xs, ys) on integer series.
spearman(x, y) ==
  LET n == Min(Len(x), Len(y))
  IN  IF n < 3 THEN NaN
      ELSE pearson(rank(SubSeq(x, 1, n)), rank(SubSeq(y, 1, n)))

\* A finite number that is the fraction q.
RNum(q) == [k |-> "number", q |-> q]

\* The one-character string U+2205 that stands for a missing level.
EmptySet == "U+2205"

\* String(v ?? EmptySet): the level of a categorical cell.
Level(v) == IF v = Null \/ v = Undefined THEN EmptySet ELSE JsString(v)

\* The body of cramersV, minObs being the least number of paired observations
\* for which a value is computed.
CramersVFrom(a, b, minObs) ==
  LET n == Min(Len(a), Len(b))
      ka == [i \in 1 .. n |-> Level(a[i])]
      kb == [i \in 1 .. n |-> Level(b[i])]
      rows == {ka[i] : i \in 1 .. n}
      cols == {kb[i] : i \in 1 .. n}
      A == [ra \in rows |-> Cardinality({i \in 1 .. n : ka[i] = ra})]
      B == [cb \in cols |-> Cardinality({i \in 1 .. n : kb[i] = cb})]
      obs == [ra \in rows |-> [cb \in cols |->
                Cardinality({i \in 1 .. n : ka[i] = ra /\ kb[i] = cb})]]
      cells == rows \X cols
      Term(c) ==
        LET exp == Rat(A[c[1]] * B[c[2]], n)
            d == RSub(RInt(obs[c[1]][c[2]]), exp)
        IN  IF exp # RZero THEN RDiv(RMul(d, d), exp) ELSE RZero
      chi2 == LET RECURSIVE Acc(_)
                  Acc(S) == IF S = {} THEN RZero
                            ELSE LET c == CHOOSE c \in S : TRUE
                                 IN  RAdd(Term(c), Acc(S \ {c}))
              IN  Acc(cells)
      kk == Min(Cardinality(rows) - 1, Cardinality(cols) - 1)
  IN  IF n < minObs THEN NaN
      ELSE IF Cardinality(rows) < 2 \/ Cardinality(cols) < 2 THEN NaN
      ELSE Root(1, RDiv(chi2, RInt(n * kk)))

\* cramersV with the threshold on the observations one too low.
cramersVFromFour(a, b) == CramersVFrom(a, b, 4)

cramersV(a, b) == CramersVFrom(a, b, 5)

\* The valid (group, value) pairs etaSquared keeps: those with a finite value.
ValidPairs(cat, num) ==
  LET n == Min(Len(cat), Len(num))
      idx == SelectSeq([i \in 1 .. n |-> i], LAMBDA i : IsFinite(num[i]))
  IN  [p \in 1 .. Len(idx) |-> [g |-> Level(cat[idx[p]]), y |-> num[idx[p]].v]]

\* The body of etaSquared; Between(valid, grandMean) is the sum of squares it
\* divides by the total sum of squares.
SsBetween(valid, grandMean) ==
  LET groups == {valid[p].g : p \in 1 .. Len(valid)}
      cnt == [g \in groups |-> Cardinality({p \in 1 .. Len(valid) : valid[p].g = g})]
      sum == [g \in groups |-> Sum([p \in 1 .. Len(valid) |->
                                      IF valid[p].g = g THEN valid[p].y ELSE 0])]
      Term(g) ==
        LET d == RSub(Rat(sum[g], cnt[g]), grandMean)
        IN  RMul(RInt(cnt[g]), RMul(d, d))
      RECURSIVE Acc(_)
      Acc(S) == IF S = {} THEN RZero
                ELSE LET g == CHOOSE g \in S : TRUE
                     IN  RAdd(Term(g), Acc(S \ {g}))
  IN  Acc(groups)

\* etaSquared dividing by the sum of squares between the groups instead of the
\* total one.
etaSquaredInverted(cat, num) ==
  LET valid == ValidPairs(cat, num)
      grandMean == Rat(Sum([p \in 1 .. Len(valid) |-> valid[p].y]), Len(valid))
      sst == SumSqDev([p \in 1 .. Len(valid) |-> valid[p].y], grandMean)
      ssb == SsBetween(valid, grandMean)
  IN  IF Len(valid) < 3 THEN NaN
      ELSE IF ssb # RZero THEN RNum(RDiv(sst, ssb)) ELSE NaN

etaSquared(cat, num) ==
  LET valid == ValidPairs(cat, num)
      grandMean == Rat(Sum([p \in 1 .. Len(valid) |-> valid[p].y]), Len(valid))
      sst == SumSqDev([p \in 1 .. Len(valid) |-> valid[p].y], grandMean)
      ssb == SsBetween(valid, grandMean)
  IN  IF Len(valid) < 3 THEN NaN
      ELSE IF sst # RZero THEN RNum(RDiv(ssb, sst)) ELSE NaN

\* The index pairs (i, j), i < j, in the order the two nested loops of
\* topCorrelations visit them.
RECURSIVE PairsFrom(_, _, _)
PairsFrom(i, j, n) ==
  IF i > n THEN <<>>
  ELSE IF j > n THEN PairsFrom(i + 1, i + 2, n)
  ELSE << <<i, j>> >> \o PairsFrom(i, j + 1, n)

\* table.columns.filter(c => inferType(table.rows.map(r => r[c])) === "number")
NumCols(t) ==
  LET IsNumberColumn(c) ==
        inferType([i \in 1 .. Len(t.rows) |-> Get(t.rows[i], c)]) = "number"
  IN  SelectSeq(t.columns, IsNumberColumn)

\* table.rows.map(r => Number(r[c])).filter(Number.isFinite)
FiniteColumn(t, c) == FiniteNums([i \in 1 .. Len(t.rows) |-> Get(t.rows[i], c)])

\* if (Number.isFinite(r)) pairs.push({ a, b, r, kind })
PushIfFinite(a, b, r, kind) ==
  IF IsFinite(r) THEN <<[a |-> a, b |-> b, r |-> r, kind |-> kind]>> ELSE <<>>

\* What one pass of the inner loop pushes for the columns a and b.
Pushed(t, a, b) ==
  LET x == FiniteColumn(t, a)
      y == FiniteColumn(t, b)
  IN  IF Min(Len(x), Len(y)) < 3 THEN <<>>
      ELSE CHOOSE pushed \in
             {PushIfFinite(a, b, rp, "pearson") \o PushIfFinite(a, b, rs, "spearman") :
                rp \in {pearson(Series(x), Series(y))}, rs \in {spearman(x, y)}} : TRUE

\* The array `pairs` once both loops are done.
RECURSIVE PushedAll(_, _, _)
PushedAll(t, numCols, ijs) ==
  IF ijs = <<>> THEN <<>>
  ELSE Pushed(t, numCols[ijs[1][1]], numCols[ijs[1][2]])
       \o PushedAll(t, numCols, Tail(ijs))

\* pairs.sort(cmp).slice(0, k), cmp being the comparator (p, q) =>
\* Math.abs(q.r) - Math.abs(p.r) when descending and its opposite when not.
\* |r| is the square root of r.sq, so |p.r| >= |q.r| iff q.r.sq <= p.r.sq.
SortAndSlice(pairs, k, descending) ==
  LET le == [p \in 1 .. Len(pairs) |-> [q \in 1 .. Len(pairs) |->
               IF descending THEN RLe(pairs[q].r.sq, pairs[p].r.sq)
               ELSE RLe(pairs[p].r.sq, pairs[q].r.sq)]]
      perm == SortPerm(le, Len(pairs))
      sorted == [p \in 1 .. Len(pairs) |-> pairs[perm[p]]]
  IN  SubSeq(sorted, 1, Min(k, Len(sorted)))

TopCorrelationsBy(t, k, descending) ==
  LET numCols == NumCols(t)
  IN  CHOOSE out \in
        {SortAndSlice(pairs, k, descending) :
           pairs \in {PushedAll(t, numCols, PairsFrom(1, 2, Len(numCols)))}} : TRUE

\* topCorrelations sorting by ascending |r|.
topCorrelationsAscending(t, k) == TopCorrelationsBy(t, k, FALSE)

topCorrelations(t, k) == TopCorrelationsBy(t, k, TRUE)

(***************************************************************************)
(* Trend, changepoint and anomalies.                                       *)
(***************************************************************************)
\* new Date(v).getTime().  The model's dates (2024) get a timestamp that is
\* later than that of new Date(n) for every number n of the model: null is
\* 1970-01-01T00:00:00.000Z and a number n is n milliseconds after it.  No
\* numeral string is left in a coerced table.
GetTime(v) ==
  CASE v.k = "null" -> Num(0)
    [] v.k = "undefined" -> NaN
    [] v.k = "number" -> v
    [] v.k = "NaN" -> NaN
    [] v.k = "Date" -> Num(1000 + v.t)
    [] v.k = "string" ->
         IF DateParse(Trim(v.s)) # NaN THEN Num(1000 + DateParse(Trim(v.s)).v)
         ELSE NaN

\* table.columns.filter(c => inferType(table.rows.map(r => r[c])) === type)
ColumnsOfType(t, type) ==
  LET HasType(c) == inferType([i \in 1 .. Len(t.rows) |-> Get(t.rows[i], c)]) = type
  IN  SelectSeq(t.columns, HasType)

\* !col for the result of table.columns.find(...): no column found, or the
\* column found has the empty name.
NotFound(cols) == cols = <<>> \/ cols[1] = ""

\* The array `points` of firstDateTrend: (t, y) of the rows with a valid
\* time and a finite number, in ascending order of t (the sort is stable).
TrendPoints(t, dateCol, numCol) ==
  LET all == [i \in 1 .. Len(t.rows) |->
                [t |-> GetTime(Get(t.rows[i], dateCol)),
                 y |-> ToNumber(Get(t.rows[i], numCol))]]
      Kept(p) == p.t # NaN /\ IsFinite(p.y)
      kept == SelectSeq(all, Kept)
      le == [a \in 1 .. Len(kept) |-> [b \in 1 .. Len(kept) |-> kept[a].t.v <= kept[b].t.v]]
      perm == SortPerm(le, Len(kept))
  IN  [p \in 1 .. Len(kept) |-> kept[perm[p]]]

\* Math.abs(slope) < 1e-8, without multiplying by 10^8.
Below1e8(slope) ==
  \/ slope.n = 0
  \/ slope.d \div Abs(slope.n) > 100000000
  \/ slope.d \div Abs(slope.n) = 100000000 /\ slope.d % Abs(slope.n) # 0

\* +x.toFixed(digits) for digits = 2 or 3 (scale = 10^digits), x >= 0.
ToFixed(x, scale) == Rat(MathRound(RMul(RInt(scale), x)), scale)

\* The gain of one split of the changepoint scan.
SplitGain(ysv, split, sseFull) ==
  LET left == SubSeq(ysv, 1, split)
      right == SubSeq(ysv, split + 1, Len(ysv))
      m1 == Rat(Sum(left), split)
      m2 == Rat(Sum(right), Len(ysv) - split)
      sse1 == SumSqDev(left, m1)
      sse2 == SumSqDev(right, m2)
  IN  IF sseFull # RZero THEN RSub(ROne, RDiv(RAdd(sse1, sse2), sseFull)) ELSE RZero

\* The loop of the scan from `split` on: `best` after the last split.
RECURSIVE ScanFrom(_, _, _, _)
ScanFrom(ysv, split, sseFull, best) ==
  IF split > Len(ysv) - 3 THEN best
  ELSE CHOOSE b \in
         {ScanFrom(ysv, split + 1, sseFull,
                   IF RLt(best.gain, gain) THEN [idx |-> split, gain |-> gain] ELSE best) :
            gain \in {SplitGain(ysv, split, sseFull)}} : TRUE

\* The changepoint of the values ysv with mean my, the scan starting at the
\* split `first`.
ChangepointFrom(ysv, my, first) ==
  LET best == ScanFrom(ysv, first, SumSqDev(ysv, my), [idx |-> -1, gain |-> RZero])
  IN  IF RLe(Rat(3, 10), best.gain)
      THEN [atIndex |-> best.idx, improvement |-> ToFixed(best.gain, 100)]
      ELSE Null

\* The changepoint scan starting one split early.
changepointFromTwo(ysv, my) == ChangepointFrom(ysv, my, 2)

changepoint(ysv, my) == ChangepointFrom(ysv, my, 3)

\* firstDateTrend once the points are there.
TrendOf(dateCol, numCol, points) ==
  LET n == Len(points)
      ysv == [i \in 1 .. n |-> points[i].y.v]
      mx == Rat(Sum([i \in 1 .. n |-> i - 1]), n)
      my == Rat(Sum(ysv), n)
      num == RSum([i \in 1 .. n |-> RMul(RSub(RInt(i - 1), mx), RSub(RInt(ysv[i]), my))])
      den == SumSqDev([i \in 1 .. n |-> i - 1], mx)
      dy2 == SumSqDev(ysv, my)
      slope == IF den # RZero THEN RDiv(num, den) ELSE RZero
      r2 == IF den # RZero /\ dy2 # RZero THEN RDiv(RMul(num, num), RMul(den, dy2)) ELSE RZero
      sd == stdev(ysv, my)
      ZOut(y) == ZAbove3(y, my, sd)
  IN  [dateCol |-> dateCol,
       numCol |-> numCol,
       slope |-> slope,
       r2 |-> ToFixed(r2, 1000),
       dir |-> IF Below1e8(slope) THEN "flat" ELSE IF slope.n > 0 THEN "up" ELSE "down",
       changepoint |-> changepoint(ysv, my),
       anomalies |-> IF sd # Sqrt(RZero) THEN Len(SelectSeq(ysv, ZOut)) ELSE 0]

firstDateTrend(t) ==
  LET dateCols == ColumnsOfType(t, "date")
      numCols == ColumnsOfType(t, "number")
  IN  IF NotFound(dateCols) \/ NotFound(numCols) THEN Null
      ELSE CHOOSE res \in
             {IF Len(points) < 3 THEN Null ELSE TrendOf(dateCols[1], numCols[1], points) :
                points \in {TrendPoints(t, dateCols[1], numCols[1])}} : TRUE

(***************************************************************************)
(* Seasonality.  getDay and getMonth read a Date in the local time zone:   *)
(* `west` tells whether the zone is behind UTC, in which case a date-only  *)
(* string (UTC midnight) and the epoch fall on the previous local day.     *)
(***************************************************************************)
\* The local day of a timestamp of the model, counted in days of January
\* 2024 (0 is 2023-12-31), or -1 for a timestamp next to the epoch.
LocalDay(time, west) ==
  IF time < 1000 THEN -1 ELSE (time - 1000) - (IF west THEN 1 ELSE 0)

\* Date.prototype.getDay: 1970-01-01 is a Thursday, 2024-01-01 a Monday.
GetDay(time, west) ==
  IF LocalDay(time, west) = -1 THEN (IF west THEN 3 ELSE 4)
  ELSE LocalDay(time, west) % 7

\* Date.prototype.getMonth.
GetMonth(time, west) ==
  IF LocalDay(time, west) = -1 THEN (IF west THEN 11 ELSE 0)
  ELSE IF LocalDay(time, west) = 0 THEN 11 ELSE 0

\* The averages per bucket (weekday or month) of the rows with a valid date
\* and a finite number: avgs[b + 1] is the average of bucket b, 0 when the
\* bucket is empty.  `bucket` maps the index of a row to its bucket.
BucketAverages(t, dateCol, numCol, bucket, size) ==
  LET Used(i) == /\ GetTime(Get(t.rows[i], dateCol)) # NaN
                 /\ IsFinite(ToNumber(Get(t.rows[i], numCol)))
      In(b) == {i \in 1 .. Len(t.rows) : Used(i) /\ bucket[i] = b}
      vals == [i \in 1 .. Len(t.rows) |->
                 IF Used(i) THEN ToNumber(Get(t.rows[i], numCol)).v ELSE 0]
  IN  [b1 \in 1 .. size |->
         IF In(b1 - 1) = {} THEN [avg |-> RZero, count |-> 0]
         ELSE [avg |-> Rat(Sum([i \in 1 .. Len(t.rows) |->
                                  IF i \in In(b1 - 1) THEN vals[i] ELSE 0]),
                           Cardinality(In(b1 - 1))),
               count |-> Cardinality(In(b1 - 1))]]

\* avgs.reduce((m, _, i) => avgs[i] > avgs[m] ? i : m, 0): the first index
\* (from 0) of the greatest average.
FirstMax(avgs) ==
  CHOOSE m \in 0 .. Len(avgs) - 1 :
    /\ \A i \in 0 .. Len(avgs) - 1 : RLe(avgs[i + 1].avg, avgs[m + 1].avg)
    /\ \A i \in 0 .. m - 1 : RLt(avgs[i + 1].avg, avgs[m + 1].avg)

\* avgs.reduce((m, _, i) => avgs[i] < avgs[m] ? i : m, 0)
FirstMin(avgs) ==
  CHOOSE m \in 0 .. Len(avgs) - 1 :
    /\ \A i \in 0 .. Len(avgs) - 1 : RLe(avgs[m + 1].avg, avgs[i + 1].avg)
    /\ \A i \in 0 .. m - 1 : RLt(avgs[m + 1].avg, avgs[i + 1].avg)

weekdaySeasonality(t, west) ==
  LET dateCols == ColumnsOfType(t, "date")
      numCols == ColumnsOfType(t, "number")
  IN  IF NotFound(dateCols) \/ NotFound(numCols) THEN Null
      ELSE
        LET bucket == [i \in 1 .. Len(t.rows) |->
                         IF GetTime(Get(t.rows[i], dateCols[1])) = NaN THEN -1
                         ELSE GetDay(GetTime(Get(t.rows[i], dateCols[1])).v, west)]
        IN  CHOOSE res \in
              {[dateCol |-> dateCols[1], numCol |-> numCols[1],
                bestWeekday |-> FirstMax(avgs),
                bestWeekdayAvg |-> avgs[FirstMax(avgs) + 1].avg] :
                 avgs \in {BucketAverages(t, dateCols[1], numCols[1], bucket, 7)}} : TRUE

monthSeasonality(t, west) ==
  LET dateCols == ColumnsOfType(t, "date")
      numCols == ColumnsOfType(t, "number")
  IN  IF NotFound(dateCols) \/ NotFound(numCols) THEN Null
      ELSE
        LET bucket == [i \in 1 .. Len(t.rows) |->
                         IF GetTime(Get(t.rows[i], dateCols[1])) = NaN THEN -1
                         ELSE GetMonth(GetTime(Get(t.rows[i], dateCols[1])).v, west)]
            StrongOf(avgs) ==
              LET amplitude == RSub(avgs[FirstMax(avgs) + 1].avg, avgs[FirstMin(avgs) + 1].avg)
                  used == Cardinality({b \in 1 .. 12 : avgs[b].count > 0})
                  mean == RDiv(RSum([b \in 1 .. 12 |-> avgs[b].avg]),
                               RInt(IF used # 0 THEN used ELSE 1))
              IN  IF mean # RZero THEN RLe(Rat(3, 10), RDiv(amplitude, mean)) ELSE FALSE
        IN  CHOOSE res \in
              {[dateCol |-> dateCols[1], numCol |-> numCols[1],
                peakMonth |-> FirstMax(avgs), troughMonth |-> FirstMin(avgs),
                strong |-> StrongOf(avgs)] :
                 avgs \in {BucketAverages(t, dateCols[1], numCols[1], bucket, 12)}} : TRUE

(***************************************************************************)
(* Data quality checks.                                                    *)
(***************************************************************************)
\* Date.prototype.toISOString for the dates of the model (January 2024).
ToISOString(d) ==
  "2024-01-" \o (IF d.t < 10 THEN "0" ELSE "") \o DecStr(d.t) \o "T00:00:00.000Z"

\* JSON.stringify of a cell; no string of the model needs escaping.
JsonValue(v) ==
  CASE v.k = "null" -> "null"
    [] v.k = "NaN" -> "null"
    [] v.k = "number" -> DecStr(v.v)
    [] v.k = "Date" -> "\"" \o ToISOString(v) \o "\""
    [] v.k = "string" -> "\"" \o v.s \o "\""

\* The members of JSON.stringify(r) for the keys in `keys`, in that order;
\* a key whose value is undefined is left out.
RECURSIVE JsonMembers(_, _)
JsonMembers(r, keys) ==
  IF keys = <<>> THEN <<>>
  ELSE (IF Get(r, keys[1]) = Undefined THEN <<>>
        ELSE <<"\"" \o keys[1] \o "\":" \o JsonValue(Get(r, keys[1]))>>)
       \o JsonMembers(r, Tail(keys))

RECURSIVE JoinComma(_)
JoinComma(strs) ==
  IF strs = <<>> THEN ""
  ELSE IF Len(strs) = 1 THEN strs[1]
  ELSE strs[1] \o "," \o JoinComma(Tail(strs))

\* JSON.stringify(r) of row r of table t.  The keys of a row come in the
\* order coerceTable inserted them, which is the order of t.columns.
JsonStringify(t, r) ==
  LET present == SelectSeq(t.columns, LAMBDA c : c \in DOMAIN r)
  IN  "{" \o JoinComma(JsonMembers(r, present)) \o "}"

\* duplicateRows counting every row whose key occurs anywhere else.
duplicateRowsBothWays(t) ==
  Cardinality({i \in 1 .. Len(t.rows) :
                 \E j \in 1 .. Len(t.rows) :
                   j # i /\ JsonStringify(t, t.rows[j]) = JsonStringify(t, t.rows[i])})

\* duplicateRows: the rows whose key an earlier row has put into `seen`.
duplicateRows(t) ==
  Cardinality({i \in 1 .. Len(t.rows) :
                 \E j \in 1 .. i - 1 :
                   JsonStringify(t, t.rows[j]) = JsonStringify(t, t.rows[i])})

\* The strings of seq without repetitions, in the order of first occurrence.
RECURSIVE FirstOccurrences(_, _)
FirstOccurrences(seq, seen) ==
  IF seq = <<>> THEN <<>>
  ELSE IF seq[1] \in seen THEN FirstOccurrences(Tail(seq), seen)
  ELSE <<seq[1]>> \o FirstOccurrences(Tail(seq), seen \cup {seq[1]})

\* The order in which Object.entries lists the keys that were inserted in the
\* order `keys`: the integer keys first, ascending, then the others as
\* inserted.
ObjectKeys(keys) ==
  LET IsIndex(s) == NUMERIC_RE(s)
      NotIndex(s) == ~NUMERIC_RE(s)
      index == SelectSeq(keys, IsIndex)
      sorted == SortNums([i \in 1 .. Len(index) |-> NumeralValue(index[i])])
  IN  [i \in 1 .. Len(sorted) |-> DecStr(sorted[i])] \o SelectSeq(keys, NotIndex)

\* String(r?.[c] ?? "Unknown")
Category(r, c) ==
  IF Get(r, c) \in {Null, Undefined} THEN "Unknown" ELSE JsString(Get(r, c))

\* The body of categoryImbalance, `pick` being the index of the column it
\* takes among the columns inferred as string.
CategoryImbalanceOf(t, pick) ==
  LET cols == ColumnsOfType(t, "string")
  IN  IF Len(cols) < pick THEN Null
      ELSE
        LET c == cols[pick]
            ks == [i \in 1 .. Len(t.rows) |-> Category(t.rows[i], c)]
            keys == ObjectKeys(FirstOccurrences(ks, {}))
            cnt == [i \in 1 .. Len(keys) |->
                      Cardinality({j \in 1 .. Len(ks) : ks[j] = keys[i]})]
            le == [a \in 1 .. Len(keys) |-> [b \in 1 .. Len(keys) |-> cnt[a] >= cnt[b]]]
            perm == SortPerm(le, Len(keys))
            top == IF keys = <<>> THEN 0 ELSE cnt[perm[1]]
            n == IF Len(t.rows) # 0 THEN Len(t.rows) ELSE 1
        IN  [column |-> c,
             topCategory |-> IF keys = <<>> THEN "Unknown" ELSE keys[perm[1]],
             topShare |-> ToFixed(Rat(top * 100, n), 10)]

\* categoryImbalance taking the last column inferred as string.
categoryImbalanceLast(t) ==
  CategoryImbalanceOf(t, IF ColumnsOfType(t, "string") = <<>> THEN 1
                         ELSE Len(ColumnsOfType(t, "string")))

categoryImbalance(t) == CategoryImbalanceOf(t, 1)

(***************************************************************************)
(* The insight synthesizer (src/lib/insights.ts).  A bullet is the record  *)
(* of the values its template string is made of; x.toFixed(digits) of a    *)
(* square root is kept as the pair (digits, x).                            *)
(***************************************************************************)
\* x.toFixed(digits) of a number that is a square root.
FixedRoot(x, digits) == [k |-> "number", fixed |-> digits, of |-> x]

\* The finite results of cramersV for the pairs of string columns, in loop
\* order, NaN results being dropped iff dropNaN.
RECURSIVE CatCatFrom(_, _, _, _)
CatCatFrom(t, cats, ijs, dropNaN) ==
  IF ijs = <<>> THEN <<>>
  ELSE (CHOOSE pushed \in
          {IF dropNaN /\ ~IsFinite(v) THEN <<>>
           ELSE <<[a |-> cats[ijs[1][1]], b |-> cats[ijs[1][2]], v |-> v]>> :
             v \in {cramersV(ColVals(t, cats[ijs[1][1]]), ColVals(t, cats[ijs[1][2]]))}} : TRUE)
       \o CatCatFrom(t, cats, Tail(ijs), dropNaN)

\* catCat.sort((p, q) => q.v - p.v); v is the square root of v.sq.  An entry
\* whose v is NaN makes the comparator return NaN, which sort treats as 0.
SortByV(catCat) ==
  LET le == [p \in 1 .. Len(catCat) |-> [q \in 1 .. Len(catCat) |->
               \/ catCat[p].v = NaN
               \/ catCat[q].v = NaN
               \/ RLe(catCat[q].v.sq, catCat[p].v.sq)]]
      perm == SortPerm(le, Len(catCat))
  IN  [p \in 1 .. Len(catCat) |-> catCat[perm[p]]]

\* catCat of generateInsightsAll without the test Number.isFinite(v).
catCatUnfiltered(t) ==
  LET cats == ColumnsOfType(t, "string")
  IN  CHOOSE sorted \in
        {SortByV(pushed) :
           pushed \in {CatCatFrom(t, cats, PairsFrom(1, 2, Len(cats)), FALSE)}} : TRUE

\* catCat of generateInsightsAll, sorted.
catCat(t) ==
  LET cats == ColumnsOfType(t, "string")
  IN  CHOOSE sorted \in
        {SortByV(pushed) :
           pushed \in {CatCatFrom(t, cats, PairsFrom(1, 2, Len(cats)), TRUE)}} : TRUE

\* The pairs (c, n) of the two nested loops over cats and nums.
CatNumPairsOf(cats, nums) ==
  [p \in 1 .. Len(cats) * Len(nums) |->
     <<cats[((p - 1) \div Len(nums)) + 1], nums[((p - 1) % Len(nums)) + 1]>>]

RECURSIVE CatNumFrom(_, _)
CatNumFrom(t, cns) ==
  IF cns = <<>> THEN <<>>
  ELSE (CHOOSE pushed \in
          {IF IsFinite(e2) THEN <<[cat |-> cns[1][1], num |-> cns[1][2], eta2 |-> e2]>>
           ELSE <<>> :
             e2 \in {etaSquared(ColVals(t, cns[1][1]),
                                [i \in 1 .. Len(t.rows) |-> ToNumber(Get(t.rows[i], cns[1][2]))])}} : TRUE)
       \o CatNumFrom(t, Tail(cns))

\* catNum.sort((p, q) => q.eta2 - p.eta2)
SortByEta(catNum) ==
  LET le == [p \in 1 .. Len(catNum) |-> [q \in 1 .. Len(catNum) |->
               RLe(catNum[q].eta2.q, catNum[p].eta2.q)]]
      perm == SortPerm(le, Len(catNum))
  IN  [p \in 1 .. Len(catNum) |-> catNum[perm[p]]]

\* catNum of generateInsightsAll, sorted.
catNum(t) ==
  CHOOSE sorted \in
    {SortByEta(pushed) :
       pushed \in {CatNumFrom(t, CatNumPairsOf(ColumnsOfType(t, "string"),
                                               ColumnsOfType(t, "number")))}} : TRUE

\* arr.slice(0, n)
Slice(arr, n) == SubSeq(arr, 1, Min(n, Len(arr)))

\* The bullets of one column profile, a missing-values bullet being pushed
\* from the percentage `least` on.
ProfileBulletsFrom(col, least) ==
  (IF col.missingPct >= least
   THEN <<[kind |-> "missing", name |-> col.name, pct |-> col.missingPct]>> ELSE <<>>)
  \o (IF col.numeric # Null /\ col.numeric.outliersIqr # 0
      THEN <<[kind |-> "iqr", name |-> col.name, count |-> col.numeric.outliersIqr]>> ELSE <<>>)
  \o (IF col.numeric # Null /\ col.numeric.outliersZ # 0
      THEN <<[kind |-> "sigma", name |-> col.name, count |-> col.numeric.outliersZ]>> ELSE <<>>)

\* The bullets of a column with the threshold on missingPct one too high.
profileBulletsFromEleven(col) == ProfileBulletsFrom(col, 11)

\* The body of `for (const col of profile)`.
ProfileBullets(col) == ProfileBulletsFrom(col, 10)

RECURSIVE AllProfileBullets(_)
AllProfileBullets(profile) ==
  IF profile = <<>> THEN <<>>
  ELSE ProfileBullets(profile[1]) \o AllProfileBullets(Tail(profile))

\* corrs.filter(c => Math.abs(c.r) >= 0.7).slice(0, most)
StrongCorrsUpTo(corrs, most) ==
  Slice(SelectSeq(corrs, LAMBDA c : RLe(Rat(49, 100), c.r.sq)), most)

\* The strong correlations with one more taken than the code takes.
strongCorrsFour(corrs) == StrongCorrsUpTo(corrs, 4)

StrongCorrs(corrs) == StrongCorrsUpTo(corrs, 3)

\* catCat.filter(x => x.v >= 0.6).slice(0, 2)
StrongV(cc) == Slice(SelectSeq(cc, LAMBDA x : x.v # NaN /\ RLe(Rat(36, 100), x.v.sq)), 2)

\* catNum.filter(x => x.eta2 >= 0.25).slice(0, 2)
StrongEta(cn) == Slice(SelectSeq(cn, LAMBDA x : RLe(Rat(1, 4), x.eta2.q)), 2)

CorrBullets(corrs) ==
  [i \in 1 .. Len(StrongCorrs(corrs)) |->
     LET c == StrongCorrs(corrs)[i]
     IN  [kind |-> "correlation",
          label |-> IF c.kind = "spearman" THEN "Monotonic" ELSE "Linear",
          a |-> c.a, b |-> c.b, r |-> FixedRoot(c.r, 2)]]

TrendBullets(trend) ==
  IF trend # Null /\ trend.dir # "flat"
  THEN <<[kind |-> "trend", numCol |-> trend.numCol, dir |-> trend.dir,
          dateCol |-> trend.dateCol, r2 |-> trend.r2]>>
       \o (IF trend.changepoint # Null
           THEN <<[kind |-> "shift", atIndex |-> trend.changepoint.atIndex,
                   pct |-> MathRound(RMul(RInt(100), trend.changepoint.improvement))]>>
           ELSE <<>>)
       \o (IF trend.anomalies # 0
           THEN <<[kind |-> "anomalies", count |-> trend.anomalies]>> ELSE <<>>)
  ELSE <<>>

QualityBullets(dup, imb, wSeason, mSeason) ==
  (IF dup > 0 THEN <<[kind |-> "duplicates", count |-> dup]>> ELSE <<>>)
  \o (IF imb # Null
      THEN <<[kind |-> "imbalance", column |-> imb.column,
              topCategory |-> imb.topCategory, topShare |-> imb.topShare]>> ELSE <<>>)
  \o (IF wSeason # Null
      THEN <<[kind |-> "weekday", numCol |-> wSeason.numCol,
              bestWeekday |-> wSeason.bestWeekday]>> ELSE <<>>)
  \o (IF mSeason # Null /\ mSeason.strong
      THEN <<[kind |-> "month", peak |-> mSeason.peakMonth + 1,
              trough |-> mSeason.troughMonth + 1]>> ELSE <<>>)

AssociationBullets(cc, cn) ==
  [i \in 1 .. Len(StrongV(cc)) |->
     [kind |-> "cramersV", a |-> StrongV(cc)[i].a, b |-> StrongV(cc)[i].b,
      v |-> FixedRoot(StrongV(cc)[i].v, 2)]]
  \o [i \in 1 .. Len(StrongEta(cn)) |->
        [kind |-> "eta", cat |-> StrongEta(cn)[i].cat, num |-> StrongEta(cn)[i].num,
         pct |-> MathRound(RMul(RInt(100), StrongEta(cn)[i].eta2.q))]]

\* buildNarrative(profile, bulletCount): the counts its sentence is made of.
buildNarrative(profile, bulletCount) ==
  [cols |-> Len(profile),
   missingCols |-> Len(SelectSeq(profile, LAMBDA c : c.missingPct >= 10)),
   outlierCols |-> Len(SelectSeq(profile, LAMBDA c :
                         c.numeric # Null /\ c.numeric.outliersIqr + c.numeric.outliersZ > 0)),
   findings |-> bulletCount > 0]

\* generateInsightsAll once the analyses are there.
InsightsOf(profile, corrs, trend, dup, imb, wSeason, mSeason, cc, cn) ==
  LET bullets == AllProfileBullets(profile) \o CorrBullets(corrs) \o TrendBullets(trend)
                   \o QualityBullets(dup, imb, wSeason, mSeason) \o AssociationBullets(cc, cn)
  IN  [profile |-> profile,
       bullets |-> FirstOccurrences(bullets, {}),
       narrative |-> buildNarrative(profile, Len(bullets)),
       extras |-> [corrs |-> corrs, catCat |-> Slice(cc, 5), catNum |-> Slice(cn, 5),
                   trend |-> trend, wSeason |-> wSeason, mSeason |-> mSeason,
                   dup |-> dup, imb |-> imb]]

generateInsightsAll(t, west) ==
  CHOOSE det \in
    {InsightsOf(profile, corrs, trend, dup, imb, wSeason, mSeason, cc, cn) :
       profile \in {profileTable(t)}, corrs \in {topCorrelations(t, 5)},
       trend \in {firstDateTrend(t)}, dup \in {duplicateRows(t)},
       imb \in {categoryImbalance(t)}, wSeason \in {weekdaySeasonality(t, west)},
       mSeason \in {monthSeasonality(t, west)}, cc \in {catCat(t)}, cn \in {catNum(t)}} : TRUE

\* +x.toFixed(4) of a fraction.
Fixed4(x) == ToFixed(x, 10000)

\* The `numeric` member of a column in the payload.
PayloadNumeric(numeric) ==
  [n |-> numeric.n,
   mean |-> Fixed4(numeric.mean),
   median |-> Fixed4(numeric.median),
   min |-> numeric.min,
   max |-> numeric.max,
   stdev |-> FixedRoot(numeric.stdev, 4),
   q1 |-> Fixed4(numeric.q1),
   q3 |-> Fixed4(numeric.q3),
   iqr |-> Fixed4(numeric.iqr),
   outliersIqr |-> numeric.outliersIqr,
   outliersZ |-> numeric.outliersZ]

buildAiAnalysisPayload(det) ==
  [summary |-> det.narrative,
   bullets |-> det.bullets,
   profile |-> [i \in 1 .. Len(det.profile) |->
                  [name |-> det.profile[i].name,
                   type |-> det.profile[i].type,
                   missingPct |-> det.profile[i].missingPct,
                   numeric |-> IF det.profile[i].numeric # Null
                               THEN PayloadNumeric(det.profile[i].numeric)
                               ELSE Undefined]],
   correlations |-> [i \in 1 .. Len(det.extras.corrs) |->
                       [a |-> det.extras.corrs[i].a, b |-> det.extras.corrs[i].b,
                        r |-> FixedRoot(det.extras.corrs[i].r, 4),
                        kind |-> det.extras.corrs[i].kind]],
   trend |-> IF det.extras.trend # Null
             THEN [dateCol |-> det.extras.trend.dateCol,
                   numCol |-> det.extras.trend.numCol,
                   r2 |-> det.extras.trend.r2,
                   dir |-> det.extras.trend.dir,
                   anomalies |-> det.extras.trend.anomalies,
                   changepoint |-> det.extras.trend.changepoint]
             ELSE Null,
   seasonality |->
     [weekday |-> IF det.extras.wSeason # Null
                  THEN [dateCol |-> det.extras.wSeason.dateCol,
                        numCol |-> det.extras.wSeason.numCol,
                        bestWeekday |-> det.extras.wSeason.bestWeekday,
                        bestWeekdayAvg |-> Fixed4(det.extras.wSeason.bestWeekdayAvg)]
                  ELSE Null,
      month |-> IF det.extras.mSeason # Null
                THEN [dateCol |-> det.extras.mSeason.dateCol,
                      numCol |-> det.extras.mSeason.numCol,
                      peakMonth |-> det.extras.mSeason.peakMonth,
                      troughMonth |-> det.extras.mSeason.troughMonth,
                      strong |-> det.extras.mSeason.strong]
                ELSE Null],
   duplicates |-> det.extras.dup,
   imbalance |-> det.extras.imb,
   categorical |-> [catCatTop |-> det.extras.catCat, catNumTop |-> det.extras.catNum]]

(***************************************************************************)
(* Chart data builders (charts.ts) and their helpers histogram and         *)
(* corrMatrix.                                                             *)
(***************************************************************************)
Max(a, b) == IF a >= b THEN a ELSE b

\* The truth value JavaScript gives a cell in a condition.
Truthy(v) ==
  CASE v.k = "null" -> FALSE
    [] v.k = "undefined" -> FALSE
    [] v.k = "NaN" -> FALSE
    [] v.k = "number" -> v.v # 0
    [] v.k = "string" -> v.s # ""
    [] v.k = "Date" -> TRUE

\* Array.prototype.indexOf, 1-based; 0 when e is not in seq.
IndexOf(seq, e) ==
  IF \E i \in 1 .. Len(seq) : seq[i] = e
  THEN CHOOSE i \in 1 .. Len(seq) : seq[i] = e /\ \A j \in 1 .. i - 1 : seq[j] # e
  ELSE 0

buildLineData(t, x, y) ==
  LET all == [i \in 1 .. Len(t.rows) |->
                [x |-> Get(t.rows[i], x), y |-> ToNumber(Get(t.rows[i], y))]]
      Kept(d) == Truthy(d.x) /\ IsFinite(d.y)
  IN  SelectSeq(all, Kept)

buildAreaData(t, x, y) == buildLineData(t, x, y)

\* The (key, count) entries of buildBarTopK in the order sort leaves them.
BarEntries(t, cat) ==
  LET ks == [i \in 1 .. Len(t.rows) |-> Category(t.rows[i], cat)]
      keys == ObjectKeys(FirstOccurrences(ks, {}))
      cnt == [i \in 1 .. Len(keys) |-> Cardinality({j \in 1 .. Len(ks) : ks[j] = keys[i]})]
      le == [a \in 1 .. Len(keys) |-> [b \in 1 .. Len(keys) |-> cnt[a] >= cnt[b]]]
      perm == SortPerm(le, Len(keys))
  IN  [p \in 1 .. Len(keys) |-> [name |-> keys[perm[p]], count |-> cnt[perm[p]]]]

buildBarTopK(t, cat, k) == SubSeq(BarEntries(t, cat), 1, Min(k, Len(BarEntries(t, cat))))

buildPieTopK(t, cat, k) ==
  [i \in 1 .. Len(buildBarTopK(t, cat, k)) |->
     [name |-> buildBarTopK(t, cat, k)[i].name, value |-> buildBarTopK(t, cat, k)[i].count]]

buildScatterData(t, x, y) ==
  LET all == [i \in 1 .. Len(t.rows) |->
                [x |-> ToNumber(Get(t.rows[i], x)), y |-> ToNumber(Get(t.rows[i], y))]]
      Kept(d) == IsFinite(d.x) /\ IsFinite(d.y)
  IN  SelectSeq(all, Kept)

\* histogram(values, bins) for the finite numbers nums among values (as
\* integers): bin centers, counts and edges, index 0 at position 1.
histogram(nums, bins) ==
  IF Len(nums) = 0 THEN [bins |-> <<>>, counts |-> <<>>, edges |-> <<>>]
  ELSE
    LET sorted == SortNums(nums)
        min == sorted[1]
        max == sorted[Len(sorted)]
        width == IF max - min # 0 THEN max - min ELSE 1
        edges == [i \in 1 .. bins + 1 |-> RAdd(RInt(min), Rat((i - 1) * width, bins))]
        Idx(v) == Min(bins - 1, Max(0, MathFloor(Rat((v - min) * bins, width))))
    IN  [bins |-> [i \in 1 .. bins |-> RDiv(RAdd(edges[i], edges[i + 1]), RInt(2))],
         counts |-> [i \in 1 .. bins |->
                       Cardinality({j \in 1 .. Len(nums) : Idx(nums[j]) = i - 1})],
         edges |-> edges]

buildHistData(t, col, bins) ==
  LET h == histogram(FiniteColumn(t, col), bins)
  IN  [i \in 1 .. Len(h.bins) |-> [bin |-> h.bins[i], count |-> h.counts[i]]]

buildBoxSummary(t, col) ==
  LET vals == SortNums(FiniteColumn(t, col))
      n == Len(vals)
  IN  IF n = 0 THEN Null
      ELSE
        LET q1 == vals[MathFloor(Rat(n - 1, 4)) + 1]
            q2 == vals[MathFloor(Rat(n - 1, 2)) + 1]
            q3 == vals[MathFloor(Rat(3 * (n - 1), 4)) + 1]
            iqr == q3 - q1
            lo == RSub(RInt(q1), Rat(3 * iqr, 2))
            hi == RAdd(RInt(q3), Rat(3 * iqr, 2))
            above == {i \in 1 .. n : RLe(lo, RInt(vals[i]))}
            below == {i \in 1 .. n : RLe(RInt(vals[i]), hi)}
        IN  [q1 |-> q1, q2 |-> q2, q3 |-> q3,
             whiskerLo |-> IF above # {}
                           THEN vals[CHOOSE i \in above : \A j \in above : i <= j]
                           ELSE vals[1],
             whiskerHi |-> IF below # {}
                           THEN vals[CHOOSE i \in below : \A j \in below : i >= j]
                           ELSE vals[n],
             min |-> vals[1], max |-> vals[n]]

\* One entry mat[i][j] of corrMatrix for the numeric columns a and b.
MatEntry(t, a, b) ==
  IF a = b THEN Root(1, ROne)
  ELSE
    LET x == FiniteColumn(t, a)
        y == FiniteColumn(t, b)
        n == Min(Len(x), Len(y))
    IN  IF n >= 3 THEN pearson(Series(SubSeq(x, 1, n)), Series(SubSeq(y, 1, n))) ELSE NaN

corrMatrix(t) ==
  LET cols == NumCols(t)
  IN  [cols |-> cols,
       mat |-> [i \in 1 .. Len(cols) |-> [j \in 1 .. Len(cols) |->
                  MatEntry(t, cols[Min(i, j)], cols[Max(i, j)])]]]

\* The entry r of the heatmap cell for the columns a and b, m being the
\* correlation matrix: 0 where a column is not in m or the entry is not
\* finite.
HeatmapR(m, a, b) ==
  LET ia == IndexOf(m.cols, a)
      jb == IndexOf(m.cols, b)
  IN  IF ia > 0 /\ jb > 0 /\ IsFinite(m.mat[ia][jb]) THEN m.mat[ia][jb]
      ELSE Root(0, RZero)

\* The cells of the heatmap of the columns chosen, row by row.
HeatmapCells(m, chosen) ==
  [cols |-> chosen,
   data |-> [p \in 1 .. Len(chosen) * Len(chosen) |->
               [x |-> chosen[((p - 1) \div Len(chosen)) + 1],
                y |-> chosen[((p - 1) % Len(chosen)) + 1],
                r |-> HeatmapR(m, chosen[((p - 1) \div Len(chosen)) + 1],
                               chosen[((p - 1) % Len(chosen)) + 1])]]]

\* buildCorrHeatmap(table, cols): cols is a list of names, <<>> standing for
\* an omitted or empty list.
buildCorrHeatmap(t, cols) ==
  CHOOSE heatmap \in {HeatmapCells(m, IF cols # <<>> THEN cols ELSE m.cols) :
                        m \in {corrMatrix(t)}} : TRUE

(***************************************************************************)
(* Chart suggestions (src/lib/charts.ts).                                  *)
(***************************************************************************)
\* cols[0] is a name and not the empty string.
FirstNamed(cols) == cols # <<>> /\ cols[1] # ""

\* The configurations suggestCharts pushes for the first date column d (none
\* when d is empty), the number columns and the string columns.  A
\* configuration is kept without its title, a text made of the same column
\* names.
ChartConfigs(d, numCols, strCols) ==
  (IF FirstNamed(d) /\ FirstNamed(numCols)
     THEN << [type |-> "line", x |-> d[1], y |-> numCols[1]],
             [type |-> "area", x |-> d[1], y |-> numCols[1]] >>
     ELSE <<>>)
  \o (IF FirstNamed(strCols)
        THEN << [type |-> "barTopK", cat |-> strCols[1], k |-> 10],
                [type |-> "donut", cat |-> strCols[1], k |-> 6] >>
        ELSE <<>>)
  \o (IF Len(numCols) >= 2
        THEN << [type |-> "scatter", x |-> numCols[1], y |-> numCols[2]] >>
        ELSE <<>>)
  \o (IF FirstNamed(numCols)
        THEN << [type |-> "hist", col |-> numCols[1], bins |-> 12],
                [type |-> "box", col |-> numCols[1]] >>
        ELSE <<>>)
  \o (IF Len(numCols) >= 3
        THEN << [type |-> "corrHeatmap", cols |-> Slice(numCols, 6)] >>
        ELSE <<>>)

\* suggestCharts with the first date column at index `pick` of the date
\* columns.
SuggestChartsFrom(t, pick) ==
  CHOOSE sliced \in
    {Slice(cfgs, 8) :
       cfgs \in {ChartConfigs(IF Len(dateCols) >= pick THEN <<dateCols[pick]>> ELSE <<>>,
                              numCols, strCols) :
                   dateCols \in {ColumnsOfType(t, "date")},
                   numCols \in {ColumnsOfType(t, "number")},
                   strCols \in {ColumnsOfType(t, "string")}}} : TRUE

suggestCharts(t) == SuggestChartsFrom(t, 1)

(***************************************************************************)
(* Operations that change an array or an object in place.  An expression   *)
(* that yields an array or an object refers to the array table.rows, to    *)
(* the object of row i of the table, or to something the function has      *)
(* created; sort and reverse reorder the array they are called on, and an  *)
(* assignment out[k] = v changes the object it is made to.  Every other    *)
(* write of these functions (push, counts[k] = ..., sums[w] += v,          *)
(* mat[i][j] = r) goes to an array or object literal declared in the       *)
(* function.                                                               *)
(***************************************************************************)
TableRows == [ref |-> "table.rows"]

RowObject(i) == [ref |-> "row", i |-> i]

Created == [ref |-> "created"]

\* Copy with the result aliasing the array it is called on.
copyAliasing(arr) == arr

\* map, filter, slice and the spread [...arr] return an array they create.
Copy(arr) == Created

\* The comparator of a sort as a relation on the rows of t: by the number of
\* column col (a - b), by its timestamp (a.t.getTime() - b.t.getTime()), or
\* by something that is not a property of a row.  A comparison with NaN
\* moves nothing.
RowOrder(t, by, col) ==
  LET n == Len(t.rows)
      Key(i) == IF by = "number" THEN ToNumber(Get(t.rows[i], col))
                ELSE IF by = "time" THEN GetTime(Get(t.rows[i], col))
                ELSE NaN
  IN  [a \in 1 .. n |-> [b \in 1 .. n |->
         ~(IsFinite(Key(a)) /\ IsFinite(Key(b)) /\ Key(a).v > Key(b).v)]]

\* The table after one in-place operation.
InPlace(t, op) ==
  IF op.target = TableRows /\ op.op = "sort"
  THEN [t EXCEPT !.rows = [p \in 1 .. Len(t.rows) |->
                             t.rows[SortPerm(RowOrder(t, op.by, op.col), Len(t.rows))[p]]]]
  ELSE IF op.target = TableRows /\ op.op = "reverse"
  THEN [t EXCEPT !.rows = [p \in 1 .. Len(t.rows) |-> t.rows[Len(t.rows) + 1 - p]]]
  ELSE IF op.op = "assign" /\ op.target.ref = "row"
  THEN [t EXCEPT !.rows[op.target.i] =
          [c \in DOMAIN t.rows[op.target.i] \cup {op.key} |->
             IF c = op.key THEN op.value ELSE t.rows[op.target.i][c]]]
  ELSE t

\* The table after a sequence of in-place operations.
RECURSIVE InPlaceAll(_, _)
InPlaceAll(t, ops) ==
  IF ops = <<>> THEN t ELSE InPlaceAll(InPlace(t, ops[1]), Tail(ops))

SortOf(target, by, col) == [op |-> "sort", target |-> target, by |-> by, col |-> col]

\* Concatenation of a sequence of sequences.
RECURSIVE Flatten(_)
Flatten(seqs) == IF seqs = <<>> THEN <<>> ELSE seqs[1] \o Flatten(Tail(seqs))

\* coerceTable: out[k] = coerceValue(r?.[k]) for every row and column, out
\* being the object literal created for the row.
CoerceTableWrites(t) ==
  Flatten([i \in 1 .. Len(t.rows) |->
             [j \in 1 .. Len(t.columns) |->
                [op |-> "assign", target |-> Created, key |-> t.columns[j],
                 value |-> coerceValue(Get(t.rows[i], t.columns[j]), <<i, t.columns[j]>>)]]])

\* profileTable: [...nums].sort for every column inferred as number, nums
\* being colVals.map(Number).filter(...) and colVals table.rows.map(...).
ProfileTableWrites(t) ==
  [j \in 1 .. Len(NumCols(t)) |->
     SortOf(Copy(Copy(Copy(Copy(TableRows)))), "number", NumCols(t)[j])]

\* topCorrelations: spearman's rank sorts vals.map(...) for both columns of
\* every pair with at least 3 values, vals being table.rows.map(...)
\* .filter(...); then pairs, an array literal, is sorted.
TopCorrelationsWrites(t) ==
  LET numCols == NumCols(t)
      ijs == PairsFrom(1, 2, Len(numCols))
      OfPair(ij) ==
        IF Min(Len(FiniteColumn(t, numCols[ij[1]])), Len(FiniteColumn(t, numCols[ij[2]]))) < 3
        THEN <<>>
        ELSE <<SortOf(Copy(Copy(Copy(Copy(TableRows)))), "number", numCols[ij[1]]),
               SortOf(Copy(Copy(Copy(Copy(TableRows)))), "number", numCols[ij[2]])>>
  IN  Flatten([p \in 1 .. Len(ijs) |-> OfPair(ijs[p])]) \o <<SortOf(Created, "r", "")>>

\* firstDateTrend: table.rows.map(...).filter(...).sort(...) by timestamp.
FirstDateTrendWrites(t) ==
  LET dateCols == ColumnsOfType(t, "date")
      numCols == ColumnsOfType(t, "number")
  IN  IF NotFound(dateCols) \/ NotFound(numCols) THEN <<>>
      ELSE <<SortOf(Copy(Copy(TableRows)), "time", dateCols[1])>>

\* categoryImbalance and buildBarTopK: Object.entries(counts).sort(...),
\* counts being an object literal.
EntriesSort == <<SortOf(Copy(Created), "count", "")>>

CategoryImbalanceWrites(t) ==
  IF ColumnsOfType(t, "string") = <<>> THEN <<>> ELSE EntriesSort

\* generateInsightsAll: the calls it makes, then catCat.sort and
\* catNum.sort on array literals.
GenerateInsightsAllWrites(t) ==
  ProfileTableWrites(t) \o TopCorrelationsWrites(t) \o FirstDateTrendWrites(t)
    \o CategoryImbalanceWrites(t) \o <<SortOf(Created, "v", ""), SortOf(Created, "eta2", "")>>

\* buildBoxSummary: table.rows.map(...).filter(...).sort(...), and
\* [...vals].reverse() when there are values.
BuildBoxSummaryWrites(t, col) ==
  <<SortOf(Copy(Copy(TableRows)), "number", col)>>
    \o (IF FiniteColumn(t, col) = <<>> THEN <<>>
        ELSE <<[op |-> "reverse", target |-> Copy(Copy(Copy(TableRows)))]>>)

(***************************************************************************)
(* The AI route (api/ai-insights/route.ts).  A JSON object is a record     *)
(* whose members hold Undefined when absent; a JSON array is Arr(items).   *)
(***************************************************************************)
\* String.prototype.toLowerCase on the provider names of the model.
ToLowerCase(s) ==
  CASE s \in {"groq", "GROQ", "Groq"} -> "groq"
    [] s \in {"openai", "OpenAI"} -> "openai"
    [] OTHER -> s

\* const provider = (process.env.AI_PROVIDER || "groq").toLowerCase()
Provider(env) ==
  IF env.AI_PROVIDER = Undefined \/ env.AI_PROVIDER = Str("") THEN "groq"
  ELSE ToLowerCase(env.AI_PROVIDER.s)

\* s.trim() === ""
IsBlank(s) == s \in {"", " ", "  "}

\* v ?? 0 for a member that holds Num(n) or is absent.
OrZero(v) == IF v.k = "number" THEN v.v ELSE 0

\* A JSON array with the given items.
Arr(items) == [items |-> items]

\* Array.isArray(v) ? v : []
OrEmpty(v) == IF "items" \in DOMAIN v THEN v.items ELSE <<>>

\* x >= num / den for a fraction x.
AtLeast(x, num, den) == x.n * den >= num * x.d

\* analysis?.categorical?.[member]
Categorical(analysis, member) ==
  IF analysis.categorical = Undefined THEN Undefined ELSE analysis.categorical[member]

\* arr.filter(keep).sort((a, b) => key(b) - key(a)).slice(0, 3), keep and key
\* being given per element.
TopThree(arr, keep, key) ==
  LET kept == SelectSeq([i \in 1 .. Len(arr) |-> i], LAMBDA i : keep[i])
      le == [a \in 1 .. Len(kept) |-> [b \in 1 .. Len(kept) |-> key[kept[a]] >= key[kept[b]]]]
      perm == SortPerm(le, Len(kept))
  IN  [p \in 1 .. Min(3, Len(kept)) |-> arr[kept[perm[p]]]]

\* c?.numeric?.outliersIqr ?? 0 and c?.numeric?.outliersZ ?? 0, added.
OutlierCount(c) ==
  IF c.numeric = Undefined THEN 0
  ELSE OrZero(c.numeric.outliersIqr) + OrZero(c.numeric.outliersZ)

\* Whether |x| >= num / den for a fraction x.
AbsAtLeast(x, num, den) == Abs(x.n) * den >= num * x.d

\* The recommendations fallbackFromAnalysis pushes, in order.
AnalysisRecs(analysis) ==
  LET prof == OrEmpty(analysis.profile)
      missingCols ==
        TopThree(prof, [i \in 1 .. Len(prof) |-> OrZero(prof[i].missingPct) >= 10],
                 [i \in 1 .. Len(prof) |-> OrZero(prof[i].missingPct)])
      outlierCols ==
        TopThree(prof, [i \in 1 .. Len(prof) |-> OutlierCount(prof[i]) > 0],
                 [i \in 1 .. Len(prof) |-> OutlierCount(prof[i])])
      corrs == OrEmpty(analysis.correlations)
      strongCorrs == Slice(SelectSeq(corrs, LAMBDA c : AbsAtLeast(c.r, 7, 10)), 3)
      catCatTop == Slice(SelectSeq(OrEmpty(Categorical(analysis, "catCatTop")),
                                   LAMBDA x : AtLeast(x.v, 1, 2)), 2)
      catNumTop == Slice(SelectSeq(OrEmpty(Categorical(analysis, "catNumTop")),
                                   LAMBDA x : AtLeast(x.eta2, 1, 5)), 2)
  IN  (IF missingCols # <<>>
       THEN <<[kind |-> "missing",
               cols |-> [i \in 1 .. Len(missingCols) |->
                           [name |-> missingCols[i].name, pct |-> missingCols[i].missingPct]]]>>
       ELSE <<>>)
      \o (IF outlierCols # <<>>
          THEN <<[kind |-> "outliers",
                  cols |-> [i \in 1 .. Len(outlierCols) |-> outlierCols[i].name]]>>
          ELSE <<>>)
      \o [i \in 1 .. Len(strongCorrs) |->
            [kind |-> "correlation", a |-> strongCorrs[i].a, b |-> strongCorrs[i].b,
             r |-> [sign |-> Sign(strongCorrs[i].r),
                    abs |-> ToFixed(Rat(Abs(strongCorrs[i].r.n), strongCorrs[i].r.d), 100)]]]
      \o (IF analysis.trend \notin {Undefined, Null}
             /\ analysis.trend.dir # "" /\ analysis.trend.r2 # RZero
          THEN <<[kind |-> "trend", numCol |-> analysis.trend.numCol,
                  dateCol |-> analysis.trend.dateCol, r2 |-> analysis.trend.r2]>>
          ELSE <<>>)
      \o (IF analysis.imbalance \notin {Undefined, Null} /\ analysis.imbalance.topShare # RZero
          THEN <<[kind |-> "imbalance", column |-> analysis.imbalance.column,
                  topShare |-> analysis.imbalance.topShare]>>
          ELSE <<>>)
      \o [i \in 1 .. Len(catCatTop) |->
            [kind |-> "cramersV", a |-> catCatTop[i].a, b |-> catCatTop[i].b,
             v |-> ToFixed(catCatTop[i].v, 100)]]
      \o [i \in 1 .. Len(catNumTop) |->
            [kind |-> "eta", cat |-> catNumTop[i].cat, num |-> catNumTop[i].num,
             pct |-> MathRound(RMul(RInt(100), catNumTop[i].eta2))]]

fallbackFromAnalysis(analysis) ==
  [status |-> "fallback",
   narrative |-> "AI fallback: actionable, rule-based recommendations.",
   recommendations |-> Slice(FirstOccurrences(AnalysisRecs(analysis), {}), 8),
   risks |-> IF OrZero(analysis.duplicates) > 0
             THEN <<[kind |-> "duplicates", count |-> analysis.duplicates]>> ELSE <<>>,
   nextCharts |-> <<>>]

\* charts.find(c => c.type === type), Undefined when there is none.
FindChart(charts, type) ==
  IF \E i \in 1 .. Len(charts) : charts[i].type = type
  THEN charts[CHOOSE i \in 1 .. Len(charts) :
                /\ charts[i].type = type
                /\ \A j \in 1 .. i - 1 : charts[j].type # type]
  ELSE Undefined

\* t?.count ?? t?.value ?? 0
CountOf(t) == IF t.count \notin {Undefined, Null} THEN OrZero(t.count) ELSE OrZero(t.value)

\* The bullets fallbackFromCharts pushes, in order.
ChartBullets(chartsSummary) ==
  LET charts == OrEmpty(chartsSummary.charts)
      line == FindChart(charts, "line")
      bar == FindChart(charts, "barTopK")
      scatter == FindChart(charts, "scatter")
  IN  (IF line # Undefined /\ IsFinite(line.yMin) /\ IsFinite(line.yMax)
       THEN <<[kind |-> "line", y |-> line.y, x |-> line.x, yMin |-> line.yMin.v,
               yMax |-> line.yMax.v,
               dir |-> IF line.yMax.v - line.yMin.v > 0 THEN "increasing" ELSE "flat"]>>
       ELSE <<>>)
      \o (IF bar # Undefined /\ OrEmpty(bar.top) # <<>>
          THEN LET top == OrEmpty(bar.top)
                   total == Sum([i \in 1 .. Len(top) |-> CountOf(top[i])])
               IN  <<[kind |-> "bar", k |-> bar.k, cat |-> bar.cat, name |-> top[1].name,
                      share |-> IF total # 0
                                THEN Num(MathRound(Rat(CountOf(top[1]) * 100, total)))
                                ELSE Null]>>
          ELSE <<>>)
      \o (IF scatter # Undefined /\ OrZero(scatter.points) # 0
          THEN <<[kind |-> "scatter", x |-> scatter.x, y |-> scatter.y,
                  points |-> scatter.points]>>
          ELSE <<>>)

fallbackFromCharts(chartsSummary) ==
  [status |-> "fallback",
   narrative |-> "Charts summary (deterministic): quick, action-oriented takeaways.",
   recommendations |-> Slice(ChartBullets(chartsSummary), 6),
   risks |-> <<>>,
   nextCharts |-> <<>>]

\* NextResponse.json(data, { status }) and the two helpers ok and err.
Ok(data) == [status |-> 200, data |-> data]

Err(message) == [status |-> 400, data |-> [error |-> message]]

\* body?.analysis is missing or is not an object.  Every JSON object of the
\* model is a record without a member k; null, undefined, strings and
\* numbers carry one.
NotAnObject(v) == "k" \in DOMAIN v

\* The deterministic answer to a request: fallbackFromCharts when the
\* analysis carries an object chartsSummary, fallbackFromAnalysis otherwise.
Deterministic(analysis) ==
  IF ~NotAnObject(analysis.chartsSummary)
  THEN fallbackFromCharts(analysis.chartsSummary)
  ELSE fallbackFromAnalysis(analysis)

\* The strings of an array member of the parsed answer, [] when the member
\* is not an array.
StringsOf(v) ==
  LET strs == SelectSeq(OrEmpty(v), LAMBDA x : x.k = "string")
  IN  [i \in 1 .. Len(strs) |-> strs[i].s]

\* `out`, built from the object the model answer parses to.
OutOf(parsed) ==
  [status |-> "ai",
   narrative |-> IF parsed.narrative.k = "string" THEN parsed.narrative.s ELSE "",
   recommendations |-> StringsOf(parsed.recommendations),
   risks |-> StringsOf(parsed.risks),
   nextCharts |-> StringsOf(parsed.nextCharts)]

\* What the handler returns once fetch has settled on `upstream`: fetch
\* rejected, a response that is not ok, or an ok response whose content
\* parses to `parsed` (an object without members when it does not parse, or
\* parses to a string, a number or an array; Null when it parses to null).
AfterFetchWith(analysis, upstream, emptyAnswerIsAi) ==
  IF upstream.kind = "rejected"
  THEN Ok([status |-> "fallback", narrative |-> "", recommendations |-> <<>>,
           risks |-> <<>>, nextCharts |-> <<>>])
  ELSE IF upstream.kind = "notOk" THEN Ok(Deterministic(analysis))
  ELSE IF upstream.parsed = Null
  THEN Ok([status |-> "fallback", narrative |-> "", recommendations |-> <<>>,
           risks |-> <<>>, nextCharts |-> <<>>])
  ELSE IF ~emptyAnswerIsAi
          /\ IsBlank(OutOf(upstream.parsed).narrative)
          /\ OutOf(upstream.parsed).recommendations = <<>>
  THEN Ok(Deterministic(analysis))
  ELSE Ok(OutOf(upstream.parsed))

AfterFetch(analysis, upstream) == AfterFetchWith(analysis, upstream, FALSE)

\* POST up to its first return or to the call of Groq: the response, or
\* Undefined when the handler goes on to fetch.
BeforeFetchWith(env, body, keyRequired) ==
  IF body = Undefined \/ NotAnObject(body.analysis)
  THEN Err("Missing 'analysis' object in body.")
  ELSE IF Provider(env) # "groq" THEN Ok(Deterministic(body.analysis))
  ELSE IF keyRequired /\ env.GROQ_API_KEY \in {Undefined, Str("")}
  THEN Err("GROQ_API_KEY missing in environment.")
  ELSE Undefined

BeforeFetch(env, body) == BeforeFetchWith(env, body, TRUE)

\* The route before a request: the environment, no request, no response.
NoRoute == [env |-> Undefined, pc |-> "idle", body |-> Undefined, response |-> Undefined]

(***************************************************************************)
(* The caller: arguments and calls.                                        *)
(***************************************************************************)
\* Sequences over S of length 0 .. n.
SeqsUpTo(S, n) == UNION {[1 .. m -> S] : m \in 0 .. n}

\* The raw cells a CSV or JSON row can hold for a key.
RawCells == {Null, Str(""), Num(1), Str("7"), Str("2024-01-01"), Str("x")}

\* The rows over one column "a": a row with the key, or a row that omits it.
RawRows == {[c \in {"a"} |-> v] : v \in RawCells} \cup {<<>>}

\* A table of one column whose cells are the given numbers.
NumberTable(nums) ==
  [columns |-> <<"a">>, rows |-> [i \in 1 .. Len(nums) |-> [c \in {"a"} |-> Num(nums[i])]]]

\* Tables beyond the row bound: the column [1,2,3,4,5,100], and two columns.
SampleTables ==
  { NumberTable(<<1, 2, 3, 4, 5, 100>>),
    [columns |-> <<"a", "b">>,
     rows |-> << [a |-> Num(1), b |-> Str("x")],
                 [a |-> Str(""), b |-> Str("x")],
                 [b |-> Str("2024-01-01")] >>] }

RawTables ==
  {[columns |-> <<"a">>, rows |-> rows] : rows \in SeqsUpTo(RawRows, MaxRows)}
    \cup SampleTables

NoSeries == <<>>

Init ==
  /\ raw \in RawTables
  /\ route = NoRoute
  /\ table = NoTable
  /\ xs = NoSeries
  /\ ys = NoSeries
  /\ topK = 0
  /\ fn = "init"
  /\ ret = Null

\* afterLoad's first step: the dashboard keeps coerceTable(raw) as its table.
CoerceTable ==
  /\ fn = "init"
  /\ table' = coerceTable(raw)
  /\ fn' = "coerceTable"
  /\ ret' = table'
  /\ UNCHANGED <<route, raw, xs, ys, topK>>

\* table.rows.map(r => r[c]): the cells of column c, an omitted key undefined.
Column(t, c) == [i \in 1 .. Len(t.rows) |-> Get(t.rows[i], c)]

ColumnSet(t) == {t.columns[j] : j \in 1 .. Len(t.columns)}

\* inferType over the cells of a column (as profileTable reads them) of the
\* raw table or of the coerced one.
InferType ==
  /\ fn # "init"
  /\ \E t \in {raw, table} : \E c \in ColumnSet(t) :
       ret' = [values |-> ColVals(t, c), type |-> inferType(ColVals(t, c))]
  /\ fn' = "inferType"
  /\ UNCHANGED <<route, raw, table, xs, ys, topK>>

ProfileTable ==
  /\ fn # "init"
  /\ ret' = profileTable(table)
  /\ fn' = "profileTable"
  /\ UNCHANGED <<route, raw, table, xs, ys, topK>>

Next == CoerceTable \/ InferType \/ ProfileTable

Spec == Init /\ [][Next]_vars

(***************************************************************************)
(* Claims about type inference and the column profiler.                    *)
(***************************************************************************)
NonMissing(values) == SelectSeq(values, LAMBDA v : v # Null)

\* C1: inferType returns the class with the highest count among the
\* non-missing values, number before date before string on equal counts, and
\* unknown when every value is missing.
C1_InferTypeMajority ==
  fn = "inferType" =>
    LET vals == NonMissing(ret.values)
        n == Len(SelectSeq(vals, LooksNumber))
        d == Len(SelectSeq(vals, LooksDate))
        s == Len(vals) - n - d
    IN  /\ (ret.type = "unknown") <=> (Len(vals) = 0)
        /\ (ret.type = "number") <=> (n > 0 /\ n >= d /\ n >= s)
        /\ (ret.type = "date") <=> (d > 0 /\ d > n /\ d >= s)
        /\ (ret.type = "string") <=> (s > n /\ s > d)

\* C1 witness: as many numeric-looking strings as date-looking strings, no
\* other class ahead of them, typed number.
C1_Witness ==
  /\ fn = "inferType"
  /\ ret.type = "number"
  /\ \E i \in 1 .. Len(ret.values) : ret.values[i] = Str("7")
  /\ Len(SelectSeq(ret.values, LooksNumber)) = Len(SelectSeq(ret.values, LooksDate))
  /\ \E i \in 1 .. Len(ret.values) : ret.values[i] = Str("2024-01-01")

\* The cells of a number column that hold a finite number.
NumberCells(colVals) == SelectSeq(colVals, LAMBDA v : v.k = "number")

\* C2: for a column typed number, n counts the cells that hold a finite
\* number, and a missing cell contributes nothing to the summary.
C2_NCountsNumericCells ==
  fn = "profileTable" =>
    \A j \in 1 .. Len(ret) :
      ret[j].type = "number" =>
        LET colVals == ColVals(table, ret[j].name)
        IN  /\ ret[j].numeric.n = Len(NumberCells(colVals))
            /\ ret[j].numeric = NumericSummary(NonMissing(colVals))

\* C3: distinct is the number of distinct stringified non-missing values.
C3_DistinctByString ==
  fn = "profileTable" =>
    \A j \in 1 .. Len(ret) :
      LET vals == NonMissing(ColVals(table, ret[j].name))
      IN  ret[j].distinct = Cardinality({JsString(vals[i]) : i \in 1 .. Len(vals)})

\* A raw cell that is missing: null, the empty string, or an omitted key.
RawMissing(r, c) == c \notin DOMAIN r \/ r[c] = Null \/ r[c] = Str("")

\* C4: missingPct is 100 * m / max(1, rowCount) rounded to the nearest integer
\* (a half up), m recounted from the raw cells, and lies in 0 .. 100.
C4_MissingPctRecount ==
  fn = "profileTable" =>
    \A j \in 1 .. Len(ret) :
      LET c == ret[j].name
          m == Cardinality({i \in 1 .. Len(raw.rows) : RawMissing(raw.rows[i], c)})
          rowCount == IF Len(raw.rows) = 0 THEN 1 ELSE Len(raw.rows)
          pct == ret[j].missingPct
      IN  /\ pct \in 0 .. 100
          /\ 200 * m - rowCount < 2 * pct * rowCount
          /\ 2 * pct * rowCount <= 200 * m + rowCount
          /\ Len(raw.rows) = 0 => pct = 0

\* C4 witness: a column with one missing cell of each kind out of three rows
\* that are not all missing (67 %, rounded up from 66.7).
C4_Witness ==
  /\ fn = "profileTable"
  /\ Len(raw.rows) = 3
  /\ \E i \in 1 .. 3 : raw.rows[i] = <<>>
  /\ \E i \in 1 .. 3 : Get(raw.rows[i], "a") = Str("")
  /\ \E i \in 1 .. 3 : Get(raw.rows[i], "a") = Num(1)
  /\ ret[1].missingPct = 67

\* The quantile of the specification: position p = (m - 1) * q in the sorted
\* values, interpolated linearly between the neighbours of p.
LinearQuantile(sorted, q) ==
  LET m == Len(sorted)
      lo == ((m - 1) * q.n) \div q.d
      frac == Rat((m - 1) * q.n - lo * q.d, q.d)
  IN  IF lo + 2 <= m
      THEN RAdd(RInt(sorted[lo + 1]), RMul(frac, RInt(sorted[lo + 2] - sorted[lo + 1])))
      ELSE RInt(sorted[m])

\* How many of the values lie outside [q1 - 1.5 * iqr, q3 + 1.5 * iqr].
OutsideFences(values) ==
  LET sorted == SortNums(values)
      q1 == LinearQuantile(sorted, Rat(1, 4))
      q3 == LinearQuantile(sorted, Rat(3, 4))
      iqr == RSub(q3, q1)
  IN  Cardinality({i \in 1 .. Len(values) :
        \/ RLt(RInt(values[i]), RSub(q1, RMul(Rat(3, 2), iqr)))
        \/ RLt(RAdd(q3, RMul(Rat(3, 2), iqr)), RInt(values[i]))})

\* C5: for a number column, outliersIqr counts the column's values outside
\* the fences built from the linear-interpolation quartiles of those values,
\* and outliersZ is 0 when the standard deviation is 0.
C5_IqrOutliersOfValues ==
  fn = "profileTable" =>
    \A j \in 1 .. Len(ret) :
      ret[j].type = "number" =>
        LET cells == NumberCells(ColVals(table, ret[j].name))
            values == [i \in 1 .. Len(cells) |-> cells[i].v]
        IN  /\ ret[j].numeric.outliersIqr = OutsideFences(values)
            /\ ret[j].numeric.stdev = Sqrt(RZero) => ret[j].numeric.outliersZ = 0

(***************************************************************************)
(* The caller of pearson and spearman.                                     *)
(***************************************************************************)
SeriesValues == {0, 1, 3}

\* Elementwise transforms of a series value: two increasing, two decreasing.
Transforms ==
  { [v \in SeriesValues |-> 2 * v + 1],
    [v \in SeriesValues |-> v * v],
    [v \in SeriesValues |-> 3 - v],
    [v \in SeriesValues |-> 9 - v * v] }

Apply(f, seq) == [i \in 1 .. Len(seq) |-> f[seq[i]]]

InitSeries ==
  /\ raw = NoTable
  /\ route = NoRoute
  /\ table = NoTable
  /\ xs \in SeqsUpTo(SeriesValues, MaxLen)
  /\ ys \in SeqsUpTo(SeriesValues, MaxLen)
  /\ topK = 0
  /\ fn = "init"
  /\ ret = Null

Pearson ==
  /\ fn = "init"
  /\ ret' = [r |-> pearson(Series(xs), Series(ys)),
             swapped |-> pearson(Series(ys), Series(xs)),
             self |-> pearson(Series(xs), Series(xs))]
  /\ fn' = "pearson"
  /\ UNCHANGED <<route, raw, table, xs, ys, topK>>

Spearman ==
  /\ fn = "init"
  /\ \E f \in Transforms :
       ret' = [r |-> spearman(xs, ys),
               f |-> f,
               fx |-> spearman(Apply(f, xs), ys),
               fy |-> spearman(xs, Apply(f, ys)),
               xr |-> rank(xs)]
  /\ fn' = "spearman"
  /\ UNCHANGED <<route, raw, table, xs, ys, topK>>

NextSeries == Pearson \/ Spearman

SpecSeries == InitSeries /\ [][NextSeries]_vars

(***************************************************************************)
(* Claims about pearson and spearman.                                      *)
(***************************************************************************)
\* A series all of whose values are equal has zero variance.
ZeroVariance(seq) == \A i, j \in 1 .. Len(seq) : seq[i] = seq[j]

StrictlyIncreasing(f) == \A a, b \in DOMAIN f : a < b => f[a] < f[b]

StrictlyDecreasing(f) == \A a, b \in DOMAIN f : a < b => f[a] > f[b]

\* -r
Neg(r) == IF r = NaN THEN NaN ELSE [r EXCEPT !.sign = -r.sign]

\* The mean of the 1-based positions a value's ties take in sorted order:
\* (number of smaller values) + (number of equal values + 1) / 2.
MidRank(vals, i) ==
  LET less == Cardinality({j \in 1 .. Len(vals) : vals[j] < vals[i]})
      same == Cardinality({j \in 1 .. Len(vals) : vals[j] = vals[i]})
  IN  Rat(2 * less + same + 1, 2)

\* C7 as stated: spearman is unchanged by every strictly monotonic transform
\* of either series.
C7_SpearmanAnyMonotonic ==
  (fn = "spearman" /\ (StrictlyIncreasing(ret.f) \/ StrictlyDecreasing(ret.f))) =>
    /\ ret.fx = ret.r
    /\ ret.fy = ret.r

\* C7 as amended: spearman is unchanged by every strictly increasing transform
\* of either series, a strictly decreasing transform reverses its sign, and
\* ties receive the mean of their 1-based tied rank positions.
C7_SpearmanIncreasing ==
  fn = "spearman" =>
    /\ StrictlyIncreasing(ret.f) => ret.fx = ret.r /\ ret.fy = ret.r
    /\ StrictlyDecreasing(ret.f) => ret.fx = Neg(ret.r) /\ ret.fy = Neg(ret.r)
    /\ \A i \in 1 .. Len(xs) : ret.xr[i] = MidRank(xs, i)

\* C7 witness: a tie in xs, the square as transform, and a coefficient that is
\* positive and not 1.
C7_Witness ==
  /\ fn = "spearman"
  /\ ret.f = [v \in SeriesValues |-> v * v]
  /\ \E i, j \in 1 .. Len(xs) : i # j /\ xs[i] = xs[j]
  /\ ret.r # NaN
  /\ ret.r.sign = 1
  /\ ret.r.sq # ROne
  /\ ret.fx = ret.r

(***************************************************************************)
(* The caller of cramersV and etaSquared.                                  *)
(***************************************************************************)
\* Paired observations of two categorical columns (null is a missing cell).
CatPairs == {Null, Str("x")} \X {Str("x"), Str("y")}

\* Paired observations of a categorical column and a numeric one, as
\* generateInsightsAll passes them: r[c] ?? null and Number(r[n]).
CatNumPairs == {Null, Str("x")} \X {Num(0), Num(1), NaN}

Firsts(pairs) == [i \in 1 .. Len(pairs) |-> pairs[i][1]]

Seconds(pairs) == [i \in 1 .. Len(pairs) |-> pairs[i][2]]

\* Observations beyond the bounds: three levels on each side (associated
\* perfectly, partly, and not at all), and three groups of numbers.
SamplePairs ==
  { << <<Str("x"), Str("x")>>, <<Str("x"), Str("x")>>, <<Str("y"), Str("y")>>,
       <<Str("y"), Str("y")>>, <<Null, Str("z")>>, <<Null, Str("z")>> >>,
    << <<Str("x"), Str("x")>>, <<Str("x"), Str("y")>>, <<Str("y"), Str("y")>>,
       <<Str("y"), Str("z")>>, <<Null, Str("z")>>, <<Null, Str("x")>> >>,
    << <<Str("x"), Str("x")>>, <<Str("x"), Str("y")>>, <<Str("x"), Str("z")>>,
       <<Str("y"), Str("x")>>, <<Str("y"), Str("y")>>, <<Str("y"), Str("z")>>,
       <<Null, Str("x")>>, <<Null, Str("y")>>, <<Null, Str("z")>> >>,
    << <<Str("x"), Str("x")>>, <<Str("x"), Str("x")>>, <<Str("y"), Str("y")>>,
       <<Str("z"), Str("z")>>, <<Str("z"), Str("y")>>, <<Null, Str("x")>> >>,
    << <<Str("x"), Num(0)>>, <<Str("x"), Num(0)>>, <<Str("y"), Num(3)>>,
       <<Str("y"), Num(3)>>, <<Null, Num(1)>>, <<Null, Num(1)>> >>,
    << <<Str("x"), Num(0)>>, <<Str("x"), Num(1)>>, <<Str("y"), Num(3)>>,
       <<Str("y"), Num(1)>>, <<Null, Num(1)>>, <<Null, NaN>> >> }

InitCat ==
  /\ raw = NoTable
  /\ route = NoRoute
  /\ table = NoTable
  /\ \E pairs \in SeqsUpTo(CatPairs, MaxObs) \cup SeqsUpTo(CatNumPairs, MaxPairs)
                    \cup SamplePairs :
       /\ xs = Firsts(pairs)
       /\ ys = Seconds(pairs)
  /\ topK = 0
  /\ fn = "init"
  /\ ret = Null

CramersV ==
  /\ fn = "init"
  /\ ret' = cramersV(xs, ys)
  /\ fn' = "cramersV"
  /\ UNCHANGED <<route, raw, table, xs, ys, topK>>

EtaSquared ==
  /\ fn = "init"
  /\ ret' = etaSquared(xs, ys)
  /\ fn' = "etaSquared"
  /\ UNCHANGED <<route, raw, table, xs, ys, topK>>

NextCat == CramersV \/ EtaSquared

SpecCat == InitCat /\ [][NextCat]_vars

(***************************************************************************)
(* Claims about cramersV and etaSquared.                                   *)
(***************************************************************************)
\* The distinct levels among the first n cells, a missing cell counting as
\* the sentinel level.
Levels(cells, n) == {Level(cells[i]) : i \in 1 .. n}

ValidAt(cat, num) == {i \in 1 .. Min(Len(cat), Len(num)) : IsFinite(num[i])}

TopRows ==
  { [a |-> Num(0), b |-> Num(1), c |-> Num(0)],
    [a |-> Num(1), b |-> Num(1), c |-> Num(1)],
    [a |-> Num(3), b |-> Null,   c |-> Num(0)],
    [a |-> Num(1), b |-> Num(3), c |-> Str("x")],
    [a |-> Num(3), b |-> Num(0), c |-> Num(3)],
    [a |-> Num(3), b |-> Num(1), c |-> Num(1)] }

\* A table beyond the row bound: its column c is numeric with one cell that is
\* not a finite number, so c's series is one shorter than the other two.
SampleTopRows ==
  << [a |-> Num(0), b |-> Num(1), c |-> Num(0)],
     [a |-> Num(1), b |-> Num(3), c |-> Str("x")],
     [a |-> Num(3), b |-> Null,   c |-> Num(0)],
     [a |-> Num(1), b |-> Num(1), c |-> Num(1)],
     [a |-> Num(3), b |-> Num(0), c |-> Num(3)] >>

TopTables ==
  {[columns |-> <<"a", "b", "c">>, rows |-> rows] :
     rows \in SeqsUpTo(TopRows, MaxTopRows) \cup {SampleTopRows}}

\* The k the callers pass: 3 (the default, and page.tsx) and 5 (insights.ts),
\* and two smaller ones.
TopKs == {0, 1, 3, 5}

InitTop ==
  /\ raw = NoTable
  /\ route = NoRoute
  /\ table \in TopTables
  /\ xs = NoSeries
  /\ ys = NoSeries
  /\ topK \in TopKs
  /\ fn = "init"
  /\ ret = Null

TopCorrelations ==
  /\ fn = "init"
  /\ ret' = topCorrelations(table, topK)
  /\ fn' = "topCorrelations"
  /\ UNCHANGED <<route, raw, table, xs, ys, topK>>

NextTop == TopCorrelations

SpecTop == InitTop /\ [][NextTop]_vars

(***************************************************************************)
(* Claims about topCorrelations.                                           *)
(***************************************************************************)
\* The Pearson and the Spearman result of every pair of numeric columns of t
\* that has at least 3 finite values on each side, NaN results included.
PairResults(t) ==
  LET numeric == {i \in 1 .. Len(t.columns) : inferType(Column(t, t.columns[i])) = "number"}
      OfPair(i, j) ==
        LET x == FiniteNums(Column(t, t.columns[i]))
            y == FiniteNums(Column(t, t.columns[j]))
        IN  IF Len(x) < 3 \/ Len(y) < 3 THEN {}
            ELSE {[a |-> t.columns[i], b |-> t.columns[j],
                   r |-> pearson(Series(x), Series(y)), kind |-> "pearson"],
                  [a |-> t.columns[i], b |-> t.columns[j],
                   r |-> spearman(x, y), kind |-> "spearman"]}
  IN  UNION {OfPair(ij[1], ij[2]) : ij \in {ij \in numeric \X numeric : ij[1] < ij[2]}}

FiniteResults(t) == {c \in PairResults(t) : c.r # NaN}

\* C10: topCorrelations(table, K) returns at most K entries (as many as there
\* are finite results, when those are fewer), every one a finite Pearson or
\* Spearman result of a pair of numeric columns, in order of non-increasing
\* |r|; no finite result with a larger |r| than a returned entry is left out,
\* and no NaN result is in the output.
C10_TopCorrelationsTopK ==
  fn = "topCorrelations" =>
    \A results \in {PairResults(table)} :
      LET finite == {c \in results : c.r # NaN}
          out == {ret[i] : i \in 1 .. Len(ret)}
      IN  /\ Len(ret) <= topK
          /\ Len(ret) = Min(topK, Cardinality(finite))
          /\ \A i \in 1 .. Len(ret) : ret[i].r # NaN /\ ret[i] \in finite
          /\ \A i, j \in 1 .. Len(ret) : i < j => RLe(ret[j].r.sq, ret[i].r.sq)
          /\ \A c \in finite \ out : \A e \in out : RLe(c.r.sq, e.r.sq)
          /\ \A c \in results : c.r = NaN => c \notin out

\* topCorrelations(table, 1) has returned the stronger of two finite results
\* of a table that also has a pair of numeric columns with a NaN result.
C10_Witness ==
  /\ fn = "topCorrelations"
  /\ topK = 1
  /\ Len(ret) = 1
  /\ \E c \in PairResults(table) : c.r = NaN
  /\ \E c \in FiniteResults(table) : RLt(c.r.sq, ret[1].r.sq)

(***************************************************************************)
(* The caller of firstDateTrend.                                           *)
(***************************************************************************)
\* Raw rows with a date cell d and a number cell y, either of which may be
\* missing; d may also be a string that is no date.
RawTrendRows ==
  {[d |-> dv, y |-> yv] :
     dv \in {Str("2024-01-01"), Str("2024-01-02"), Null, Str("x")},
     yv \in {Num(1), Num(3), Null}}

\* The row with two more columns: e holds a date and f a number in every row.
Widen(r) == [d |-> r.d, y |-> r.y, e |-> Str("2024-01-01"), f |-> Num(7)]

\* What coerceTable makes of the tables over these rows, with the columns d
\* and y only, or with e and f behind them.
SparseTrendTables ==
  {coerceTable([columns |-> <<"d", "y">>, rows |-> rows]) :
     rows \in SeqsUpTo(RawTrendRows, MaxTrendRows)}
  \cup
  {coerceTable([columns |-> <<"d", "y", "e", "f">>,
                rows |-> [i \in 1 .. Len(rows) |-> Widen(rows[i])]]) :
     rows \in SeqsUpTo(RawTrendRows, MaxTrendRows)}

\* A coerced table without missing cells: row i holds the value vals[i] and
\* a date of its own, the dates ascending or descending with the rows.
DatedTable(vals, ascending) ==
  [columns |-> <<"d", "y">>,
   rows |-> [i \in 1 .. Len(vals) |->
               [d |-> DateObj(IF ascending THEN i ELSE Len(vals) + 1 - i, <<i, "d">>),
                y |-> Num(vals[i])]]]

ScanValues == {0, 1, 3}

\* The series [1 x6, 10 x6], and a step after which the lower level returns.
SampleScans ==
  { <<1, 1, 1, 1, 1, 1, 10, 10, 10, 10, 10, 10>>,
    <<0, 0, 0, 0, 5, 5, 5, 5, 0, 0>> }

CompleteTrendTables ==
  {DatedTable(vals, asc) :
     vals \in UNION {[1 .. n -> ScanValues] : n \in 6 .. MaxScan} \cup SampleScans,
     asc \in BOOLEAN}

TrendTables == SparseTrendTables \cup CompleteTrendTables

InitTrend ==
  /\ raw = NoTable
  /\ route = NoRoute
  /\ table \in TrendTables
  /\ xs = NoSeries
  /\ ys = NoSeries
  /\ topK = 0
  /\ fn = "init"
  /\ ret = Null

FirstDateTrend ==
  /\ fn = "init"
  /\ ret' = firstDateTrend(table)
  /\ fn' = "firstDateTrend"
  /\ UNCHANGED <<route, raw, table, xs, ys, topK>>

NextTrend == FirstDateTrend

SpecTrend == InitTrend /\ [][NextTrend]_vars

(***************************************************************************)
(* Claims about firstDateTrend.                                            *)
(***************************************************************************)
\* The columns of t inferred as `type`, in column order.
InferredAs(t, type) ==
  SelectSeq(t.columns, LAMBDA c : inferType(Column(t, c)) = type)

\* The rows of the coerced table t that hold a date in column dc and a
\* finite number in column nc.
DatedRows(t, dc, nc) ==
  {i \in 1 .. Len(t.rows) : t.rows[i][dc].k = "Date" /\ t.rows[i][nc].k = "number"}

\* C11: firstDateTrend returns null exactly when the table has no
\* date-inferred column, no number-inferred column, or fewer than 3 rows with
\* a valid date and a finite number; otherwise its result names the first
\* date column and the first number column in column order.
C11_TrendNullExactly ==
  fn = "firstDateTrend" =>
    LET dates == InferredAs(table, "date")
        numbers == InferredAs(table, "number")
        absent == \/ dates = <<>>
                  \/ numbers = <<>>
                  \/ Cardinality(DatedRows(table, dates[1], numbers[1])) < 3
    IN  /\ (ret = Null) <=> absent
        /\ ~absent => ret.dateCol = dates[1] /\ ret.numCol = numbers[1]

\* A table of the caller that has a date of its own and a number in every row.
Complete(t) ==
  /\ t.columns = <<"d", "y">>
  /\ \A i \in 1 .. Len(t.rows) : t.rows[i].d.k = "Date" /\ t.rows[i].y.k = "number"
  /\ \A i, j \in 1 .. Len(t.rows) : t.rows[i].d.t = t.rows[j].d.t => i = j

\* The values of a complete table in the order of their dates.
TimeSorted(t) ==
  [p \in 1 .. Len(t.rows) |->
     LET i == CHOOSE i \in 1 .. Len(t.rows) :
                Cardinality({j \in 1 .. Len(t.rows) : t.rows[j].d.t < t.rows[i].d.t}) = p - 1
     IN  t.rows[i].y.v]

\* The sum of squared errors of vals[from .. to] around its mean, as
\* (sum of squares) - (sum)^2 / count.
Sse(vals, from, to) ==
  LET cnt == to - from + 1
      sum == Sum(SubSeq(vals, from, to))
      squares == Sum([i \in 1 .. cnt |-> vals[from + i - 1] * vals[from + i - 1]])
  IN  RSub(RInt(squares), Rat(sum * sum, cnt))

\* gain(s) = 1 - (sse1 + sse2) / sseFull, for sseFull # 0.
Gain(vals, sp) ==
  RSub(ROne, RDiv(RAdd(Sse(vals, 1, sp), Sse(vals, sp + 1, Len(vals))),
                  Sse(vals, 1, Len(vals))))

\* vals is constant over its first k points and constant at another level
\* over the others.
StepAt(vals, k) ==
  /\ \A i \in 1 .. k : vals[i] = vals[1]
  /\ \A i \in k + 1 .. Len(vals) : vals[i] = vals[k + 1]
  /\ vals[1] # vals[k + 1]

\* C12: over the time-sorted values, the changepoint firstDateTrend reports
\* is {atIndex: s, improvement: gain(s) rounded to 2 decimals} for a split s
\* in 3 .. length-3 that attains the maximum of gain, iff that maximum is
\* >= 0.30, and null otherwise; a series constant over its first k >= 3
\* points and constant at another level over its remaining >= 3 points
\* reports atIndex = k and improvement 1.
C12_ChangepointBestSplit ==
  (fn = "firstDateTrend" /\ Complete(table) /\ ret # Null) =>
    \A vals \in {TimeSorted(table)} :
      LET n == Len(vals)
          splits == IF Sse(vals, 1, n) = RZero THEN {} ELSE 3 .. n - 3
          best == {sp \in splits : \A o \in splits : RLe(Gain(vals, o), Gain(vals, sp))}
          reported == \E sp \in best : RLe(Rat(3, 10), Gain(vals, sp))
          cp == ret.changepoint
      IN  /\ (cp # Null) <=> reported
          /\ cp # Null =>
               /\ cp.atIndex \in best
               /\ RLe(RSub(cp.improvement, Rat(1, 200)), Gain(vals, cp.atIndex))
               /\ RLt(Gain(vals, cp.atIndex), RAdd(cp.improvement, Rat(1, 200)))
               /\ RMul(RInt(100), cp.improvement).d = 1
          /\ \A k \in 3 .. n - 3 :
               StepAt(vals, k) => cp = [atIndex |-> k, improvement |-> ROne]

\* firstDateTrend has reported a changepoint behind the first split, with an
\* improvement strictly between 0.30 and 1, for rows that were not in the
\* order of their dates.
C12_Witness ==
  /\ fn = "firstDateTrend"
  /\ Complete(table)
  /\ Len(table.rows) >= 7
  /\ table.rows[1].d.t > table.rows[2].d.t
  /\ ret # Null
  /\ ret.changepoint # Null
  /\ ret.changepoint.atIndex > 3
  /\ RLt(Rat(3, 10), ret.changepoint.improvement)
  /\ RLt(ret.changepoint.improvement, ROne)

(***************************************************************************)
(* The caller of duplicateRows and categoryImbalance.                      *)
(***************************************************************************)
\* Raw rows over the columns a and b.  "" and null both coerce to null, "1"
\* and 1 both to the number 1, and a date string to a Date of its own.
RawQualityRows ==
  {[a |-> av, b |-> bv] :
     av \in {Str("x"), Str("y"), Null, Str(""), Num(1), Str("1")},
     bv \in {Str("x"), Str("2024-01-01")}}

\* Row sequences beyond the bound: the columns [1, 1, 2] and [x, x, x, y].
SampleQualityRows ==
  { << [a |-> Num(1), b |-> Str("x")], [a |-> Num(1), b |-> Str("x")],
       [a |-> Num(2), b |-> Str("x")] >>,
    << [a |-> Str("x"), b |-> Str("2024-01-01")], [a |-> Str("x"), b |-> Str("2024-01-01")],
       [a |-> Str("x"), b |-> Str("2024-01-02")], [a |-> Str("y"), b |-> Str("2024-01-02")] >> }

QualityTables ==
  {coerceTable([columns |-> <<"a", "b">>, rows |-> rows]) :
     rows \in SeqsUpTo(RawQualityRows, MaxQualityRows) \cup SampleQualityRows}

InitQuality ==
  /\ raw = NoTable
  /\ route = NoRoute
  /\ table \in QualityTables
  /\ xs = NoSeries
  /\ ys = NoSeries
  /\ topK = 0
  /\ fn = "init"
  /\ ret = Null

DuplicateRows ==
  /\ fn = "init"
  /\ ret' = duplicateRows(table)
  /\ fn' = "duplicateRows"
  /\ UNCHANGED <<route, raw, table, xs, ys, topK>>

CategoryImbalance ==
  /\ fn = "init"
  /\ ret' = categoryImbalance(table)
  /\ fn' = "categoryImbalance"
  /\ UNCHANGED <<route, raw, table, xs, ys, topK>>

\* The bar chart of a column of the table, as the dashboard draws it for the
\* first ten and for the first category.
QualityBarTopK ==
  \E cat \in {"a", "b"}, k \in {1, 10} :
    /\ fn = "init"
    /\ ret' = [cat |-> cat, k |-> k, data |-> buildBarTopK(table, cat, k)]
    /\ fn' = "buildBarTopK"
    /\ UNCHANGED <<route, raw, table, xs, ys, topK>>

NextQuality == DuplicateRows \/ CategoryImbalance \/ QualityBarTopK

SpecQuality == InitQuality /\ [][NextQuality]_vars

(***************************************************************************)
(* Claims about duplicateRows and categoryImbalance.                       *)
(***************************************************************************)
\* Two cells hold equal values: the same number, the same string, the same
\* point in time, or both nothing.
SameValue(v, w) ==
  IF v.k = "Date" /\ w.k = "Date" THEN v.t = w.t ELSE v = w

\* Rows i and j of t hold equal values for every column.
SameRow(t, i, j) == \A c \in ColumnSet(t) : SameValue(t.rows[i][c], t.rows[j][c])

\* C13: duplicateRows returns the number of rows minus the number of distinct
\* rows, two rows being the same iff they hold equal values for every column:
\* the first occurrence of a row is not counted and every later identical row
\* is counted once.
C13_DuplicateRowsCount ==
  fn = "duplicateRows" =>
    LET n == Len(table.rows)
        firsts == {i \in 1 .. n : \A j \in 1 .. i - 1 : ~SameRow(table, i, j)}
    IN  ret = n - Cardinality(firsts)

\* duplicateRows has counted one duplicate among three rows: a row that holds
\* the same point in time as an earlier one, in another Date object.
C13_Witness ==
  /\ fn = "duplicateRows"
  /\ Len(table.rows) = 3
  /\ ret = 1
  /\ \E i, j \in 1 .. 3 :
       /\ i < j /\ SameRow(table, i, j)
       /\ table.rows[i].b.k = "Date"
       /\ table.rows[i].b # table.rows[j].b

\* topShare is 100 * count / rowCount rounded to 1 decimal.
RoundedShare(share, count, rowCount) ==
  /\ RMul(RInt(10), share).d = 1
  /\ RLe(RSub(share, Rat(1, 20)), Rat(100 * count, rowCount))
  /\ RLt(Rat(100 * count, rowCount), RAdd(share, Rat(1, 20)))

\* C14 as stated: categoryImbalance returns null iff no column is inferred
\* as string; otherwise it takes the first string-inferred column, counts the
\* occurrences of each distinct value of that column, and reports the most
\* frequent value as topCategory with topShare = 100 * count / rowCount
\* rounded to 1 decimal.
C14_ImbalanceOfValues ==
  fn = "categoryImbalance" =>
    LET strs == InferredAs(table, "string")
        n == Len(table.rows)
    IN  /\ (ret = Null) <=> (strs = <<>>)
        /\ strs # <<>> =>
             LET col == Column(table, strs[1])
                 values == {i \in 1 .. n : col[i] # Null}
                 Count(i) == Cardinality({j \in values : SameValue(col[j], col[i])})
             IN  /\ ret.column = strs[1]
                 /\ \E i \in values :
                      /\ ret.topCategory = JsString(col[i])
                      /\ \A j \in values : Count(j) <= Count(i)
                      /\ RoundedShare(ret.topShare, Count(i), n)

\* C14, amended: the same, a missing cell counting as an occurrence of the
\* value "Unknown".
C14_ImbalanceWithUnknown ==
  fn = "categoryImbalance" =>
    LET strs == InferredAs(table, "string")
        n == Len(table.rows)
    IN  /\ (ret = Null) <=> (strs = <<>>)
        /\ strs # <<>> =>
             LET col == Column(table, strs[1])
                 Label(i) == IF col[i] = Null THEN "Unknown" ELSE JsString(col[i])
                 Count(i) == Cardinality({j \in 1 .. n : Label(j) = Label(i)})
             IN  /\ ret.column = strs[1]
                 /\ \E i \in 1 .. n :
                      /\ ret.topCategory = Label(i)
                      /\ \A j \in 1 .. n : Count(j) <= Count(i)
                      /\ RoundedShare(ret.topShare, Count(i), n)

\* categoryImbalance has reported "x" with a share of 75.0 for the column
\* [x, x, x, y].
C14_Witness ==
  /\ fn = "categoryImbalance"
  /\ Len(table.rows) = 4
  /\ Column(table, "a") = <<Str("x"), Str("x"), Str("x"), Str("y")>>
  /\ ret = [column |-> "a", topCategory |-> "x", topShare |-> RInt(75)]

(***************************************************************************)
(* The caller of generateInsightsAll and buildAiAnalysisPayload            *)
(* (page.tsx, generateAI).                                                 *)
(***************************************************************************)
\* The raw table whose column cols[j] holds the first n cells of series[j].
ColumnWise(cols, series, n) ==
  [columns |-> cols,
   rows |-> [i \in 1 .. n |->
               [c \in {cols[j] : j \in 1 .. Len(cols)} |->
                  series[CHOOSE j \in 1 .. Len(cols) : cols[j] = c][i]]]]

\* Raw rows with a date d, a number x and a string a, each of which may be
\* missing.
RawSmallRows ==
  {[d |-> dv, x |-> xv, a |-> av] :
     dv \in {Str("2024-01-01"), Null}, xv \in {Num(1), Null}, av \in {Str("x"), Null}}

SmallTables ==
  {[columns |-> <<"d", "x", "a">>, rows |-> rows] : rows \in SeqsUpTo(RawSmallRows, MaxSmallRows)}

\* Series for the columns of a table of seven columns: a date d, numbers x,
\* y, z and strings a, b, c.
DateSeries ==
  <<Str("2024-01-01"), Str("2024-01-02"), Str("2024-01-01"), Str("2024-01-02"),
    Str("2024-01-01"), Str("2024-01-02"), Str("2024-01-01"), Str("2024-01-02")>>

XSeries == <<Num(0), Num(1), Num(2), Num(3), Num(4), Num(5), Num(6), Num(7)>>

YSeries ==
  { <<Num(0), Num(1), Num(2), Num(3), Num(4), Num(5), Num(6), Num(7)>>,
    <<Num(7), Num(6), Num(5), Num(4), Num(3), Num(2), Num(1), Num(0)>>,
    <<Num(0), Num(1), Num(0), Num(1), Num(0), Num(1), Num(0), Num(1)>>,
    <<Num(1), Num(1), Num(1), Num(1), Num(1), Num(1), Num(1), Num(1)>> }

ZSeries ==
  { <<Num(0), Num(0), Num(0), Num(5), Num(5), Num(5), Num(5), Num(5)>>,
    <<Num(0), Num(1), Num(4), Num(9), Null, Num(9), Num(9), Num(9)>> }

ASeries ==
  { <<Str("x"), Str("x"), Str("x"), Str("y"), Str("y"), Str("y"), Str("y"), Str("y")>>,
    <<Str("x"), Str("y"), Str("x"), Str("y"), Str("x"), Str("y"), Str("x"), Str("y")>> }

BSeries ==
  { <<Str("x"), Str("x"), Str("x"), Str("y"), Str("y"), Str("y"), Str("y"), Str("y")>>,
    <<Str("x"), Str("x"), Str("x"), Null, Null, Null, Null, Null>>,
    <<Str("x"), Str("y"), Str("y"), Str("x"), Str("y"), Str("y"), Str("x"), Str("y")>>,
    <<Str("x"), Str("x"), Str("x"), Str("x"), Str("x"), Str("x"), Str("x"), Str("x")>> }

CSeries ==
  { <<Str("u"), Str("u"), Str("u"), Str("v"), Str("v"), Str("v"), Str("v"), Str("v")>>,
    <<Str("u"), Str("v"), Str("w"), Str("u"), Str("v"), Str("w"), Str("u"), Str("v")>> }

WideTables ==
  {ColumnWise(<<"d", "x", "y", "z", "a", "b", "c">>,
              <<DateSeries, XSeries, ys1, zs, as, bs, cs>>, MaxWideRows) :
     ys1 \in YSeries, zs \in ZSeries, as \in ASeries, bs \in BSeries, cs \in CSeries}

\* One number column x with a missing cell among 10 and among 11 cells, and
\* with one far value among 11.
LongTables ==
  { ColumnWise(<<"x">>, << <<Null, Num(1), Num(2), Num(3), Num(4), Num(5), Num(6),
                            Num(7), Num(8), Num(9)>> >>, 10),
    ColumnWise(<<"x">>, << <<Null, Num(1), Num(2), Num(3), Num(4), Num(5), Num(6),
                            Num(7), Num(8), Num(9), Num(10)>> >>, 11),
    ColumnWise(<<"x">>, << <<Num(0), Num(0), Num(0), Num(0), Num(0), Num(0), Num(0),
                            Num(0), Num(0), Num(0), Num(100)>> >>, 11) }

InsightTables == {coerceTable(t) : t \in SmallTables \cup WideTables \cup LongTables}

InitInsights ==
  /\ raw = NoTable
  /\ route = NoRoute
  /\ table \in InsightTables
  /\ xs = NoSeries
  /\ ys = NoSeries
  /\ topK = 0
  /\ fn = "init"
  /\ ret = Null

GenerateInsightsAll ==
  /\ fn = "init"
  /\ \E west \in BOOLEAN : ret' = generateInsightsAll(table, west)
  /\ fn' = "generateInsightsAll"
  /\ UNCHANGED <<route, raw, table, xs, ys, topK>>

BuildAiAnalysisPayload ==
  /\ fn = "generateInsightsAll"
  /\ ret' = buildAiAnalysisPayload(ret)
  /\ fn' = "buildAiAnalysisPayload"
  /\ UNCHANGED <<route, raw, table, xs, ys, topK>>

NextInsights == GenerateInsightsAll \/ BuildAiAnalysisPayload

SpecInsights == InitInsights /\ [][NextInsights]_vars

(***************************************************************************)
(* Claims about generateInsightsAll and buildAiAnalysisPayload.            *)
(***************************************************************************)
\* The bullets of the given kind among the emitted ones.
BulletsOfKind(bullets, kind) == SelectSeq(bullets, LAMBDA b : b.kind = kind)

\* The number of bullets of the given kind that name the column.
NamedBullets(bullets, kind, name) ==
  Len(SelectSeq(bullets, LAMBDA b : b.kind = kind /\ b.name = name))

\* C15: generateInsightsAll emits a missing-values bullet for a column iff
\* that column's missingPct >= 10, an IQR-outlier bullet iff its outliersIqr
\* > 0, a 3-sigma bullet iff its outliersZ > 0, and a duplicate-rows bullet
\* iff the table has a row that repeats an earlier one.
C15_ProfileBullets ==
  fn = "generateInsightsAll" =>
    LET n == Len(table.rows)
        repeats == {i \in 1 .. n : \E j \in 1 .. i - 1 : SameRow(table, i, j)}
    IN  /\ \A i \in 1 .. Len(table.columns) :
             LET col == ret.profile[i]
                 Emitted(kind) == NamedBullets(ret.bullets, kind, table.columns[i])
             IN  /\ col.name = table.columns[i]
                 /\ Emitted("missing") = (IF col.missingPct >= 10 THEN 1 ELSE 0)
                 /\ Emitted("iqr") =
                      (IF col.type = "number" /\ col.numeric.outliersIqr > 0 THEN 1 ELSE 0)
                 /\ Emitted("sigma") =
                      (IF col.type = "number" /\ col.numeric.outliersZ > 0 THEN 1 ELSE 0)
        /\ Len(BulletsOfKind(ret.bullets, "duplicates")) = (IF repeats # {} THEN 1 ELSE 0)
        /\ \A i \in 1 .. Len(ret.bullets) :
             ret.bullets[i].kind = "duplicates" => ret.bullets[i].count = Cardinality(repeats)

\* generateInsightsAll has emitted a missing-values bullet for a column whose
\* missingPct is exactly 10.
C15_Witness ==
  /\ fn = "generateInsightsAll"
  /\ \E i \in 1 .. Len(ret.profile) :
       /\ ret.profile[i].missingPct = 10
       /\ NamedBullets(ret.bullets, "missing", ret.profile[i].name) = 1

\* The associations that meet their threshold: correlations with |r| >= 0.7,
\* pairs of string columns with V >= 0.6, and (string, number) pairs with
\* eta squared >= 0.25.
StrongCorrelations(t) == {c \in FiniteResults(t) : RLe(Rat(7 * 7, 10 * 10), c.r.sq)}

StrongCramers(t) ==
  LET strs == InferredAs(t, "string")
      all == {[a |-> strs[ij[1]], b |-> strs[ij[2]],
               v |-> cramersV(ColVals(t, strs[ij[1]]), ColVals(t, strs[ij[2]]))] :
                ij \in {ij \in (1 .. Len(strs)) \X (1 .. Len(strs)) : ij[1] < ij[2]}}
  IN  {x \in all : x.v # NaN /\ RLe(Rat(6 * 6, 10 * 10), x.v.sq)}

StrongEtas(t) ==
  LET strs == InferredAs(t, "string")
      nums == InferredAs(t, "number")
      all == {[cat |-> strs[ij[1]], num |-> nums[ij[2]],
               eta2 |-> etaSquared(ColVals(t, strs[ij[1]]),
                                   [i \in 1 .. Len(t.rows) |->
                                      ToNumber(Get(t.rows[i], nums[ij[2]]))])] :
                ij \in (1 .. Len(strs)) \X (1 .. Len(nums))}
  IN  {x \in all : x.eta2 # NaN /\ RLe(Rat(1, 4), x.eta2.q)}

\* C16: generateInsightsAll emits at most 3 correlation bullets, at most 2
\* Cramer's V bullets and at most 2 eta-squared bullets (as many as there are
\* qualifying associations, when those are fewer); every emitted one is a
\* qualifying association, and within each family no qualifying association
\* that is stronger than an emitted one is left out.
C16_AssociationBullets ==
  fn = "generateInsightsAll" =>
    \A strongR \in {StrongCorrelations(table)} :
    \A strongV \in {StrongCramers(table)} :
    \A strongE \in {StrongEtas(table)} :
      LET rB == BulletsOfKind(ret.bullets, "correlation")
          vB == BulletsOfKind(ret.bullets, "cramersV")
          eB == BulletsOfKind(ret.bullets, "eta")
          rOut == {[a |-> rB[i].a, b |-> rB[i].b, r |-> rB[i].r.of,
                    kind |-> IF rB[i].label = "Monotonic" THEN "spearman" ELSE "pearson"] :
                     i \in 1 .. Len(rB)}
          vOut == {[a |-> vB[i].a, b |-> vB[i].b, v |-> vB[i].v.of] : i \in 1 .. Len(vB)}
          eOut == {x \in strongE : \E i \in 1 .. Len(eB) :
                                     eB[i].cat = x.cat /\ eB[i].num = x.num}
      IN  /\ Len(rB) = Min(3, Cardinality(strongR)) /\ Cardinality(rOut) = Len(rB)
          /\ Len(vB) = Min(2, Cardinality(strongV)) /\ Cardinality(vOut) = Len(vB)
          /\ Len(eB) = Min(2, Cardinality(strongE)) /\ Cardinality(eOut) = Len(eB)
          /\ rOut \subseteq strongR
          /\ vOut \subseteq strongV
          /\ \A c \in strongR \ rOut : \A e \in rOut : RLe(c.r.sq, e.r.sq)
          /\ \A c \in strongV \ vOut : \A e \in vOut : RLe(c.v.sq, e.v.sq)
          /\ \A c \in strongE \ eOut : \A e \in eOut : RLe(c.eta2.q, e.eta2.q)
          /\ \A i \in 1 .. Len(eB) :
               \E x \in eOut : /\ eB[i].cat = x.cat /\ eB[i].num = x.num
                               /\ eB[i].pct = MathRound(RMul(RInt(100), x.eta2.q))

\* generateInsightsAll has emitted 3 correlation bullets, 2 Cramer's V
\* bullets and 2 eta-squared bullets for a table in which more associations
\* of each family qualify, one of them weaker than an emitted one.
C16_Witness ==
  /\ fn = "generateInsightsAll"
  /\ Len(BulletsOfKind(ret.bullets, "correlation")) = 3
  /\ Len(BulletsOfKind(ret.bullets, "cramersV")) = 2
  /\ Len(BulletsOfKind(ret.bullets, "eta")) = 2
  /\ Cardinality(StrongCorrelations(table)) > 3
  /\ Cardinality(StrongCramers(table)) > 2
  /\ Cardinality(StrongEtas(table)) > 2
  /\ \E c \in StrongCorrelations(table) : c.r.sq # ROne
  /\ \E c \in StrongEtas(table) : c.eta2.q # ROne

\* The cells of the table that hold a value.
CellsOf(t) ==
  {Get(t.rows[i], t.columns[k]) : i \in 1 .. Len(t.rows), k \in 1 .. Len(t.columns)}
    \ {Null, Undefined}

\* The strings of a payload that are neither column names nor words of the
\* program: the category of the imbalance member and of the imbalance bullet.
PayloadCategories(p) ==
  (IF p.imbalance # Null THEN {p.imbalance.topCategory} ELSE {})
    \cup {p.bullets[i].topCategory :
            i \in {i \in 1 .. Len(p.bullets) : p.bullets[i].kind = "imbalance"}}

\* C17: the payload built by buildAiAnalysisPayload holds no raw cell value:
\* no category string of the payload (imbalance member, imbalance bullet) is
\* the string of a cell of the table.
C17_PayloadHasNoRawCell ==
  fn = "buildAiAnalysisPayload" =>
    \A s \in PayloadCategories(ret) : \A v \in CellsOf(table) : JsString(v) # s

(***************************************************************************)
(* The caller of the analysis functions and the chart builders, and the    *)
(* table it holds after the call.                                          *)
(***************************************************************************)
\* Rows over a date d, numbers x and y and a category a, as loaded: dates
\* and numbers out of order, an empty cell, a row that omits x and y.
RawFrameRows ==
  { [d |-> Str("2024-01-02"), x |-> Num(3), y |-> Num(1), a |-> Str("y")],
    [d |-> Str("2024-01-01"), x |-> Num(1), y |-> Str("7"), a |-> Str("x")],
    [d |-> Str(""), x |-> Num(0), y |-> Num(3), a |-> Null],
    [d |-> Str("2024-01-02"), a |-> Str("x")] }

RawFrameTables ==
  {[columns |-> <<"d", "x", "y", "a">>, rows |-> rows] :
     rows \in SeqsUpTo(RawFrameRows, MaxFrameRows)}

\* The tables as loaded and as the dashboard keeps them.
FrameTables == RawFrameTables \cup {coerceTable(t) : t \in RawFrameTables}

InitFrame ==
  /\ raw = NoTable
  /\ route = NoRoute
  /\ table \in FrameTables
  /\ xs = NoSeries
  /\ ys = NoSeries
  /\ topK = 5
  /\ fn = "init"
  /\ ret = Null

\* Each action is one call f(table, ...): ret is the result, and table is the
\* table as the call leaves it.
FrameCoerceTable ==
  /\ fn = "init"
  /\ fn' = "coerceTable"
  /\ ret' = coerceTable(table)
  /\ table' = InPlaceAll(table, CoerceTableWrites(table))
  /\ UNCHANGED <<route, raw, xs, ys, topK>>

FrameProfileTable ==
  /\ fn = "init"
  /\ fn' = "profileTable"
  /\ ret' = profileTable(table)
  /\ table' = InPlaceAll(table, ProfileTableWrites(table))
  /\ UNCHANGED <<route, raw, xs, ys, topK>>

FrameTopCorrelations ==
  /\ fn = "init"
  /\ fn' = "topCorrelations"
  /\ ret' = topCorrelations(table, topK)
  /\ table' = InPlaceAll(table, TopCorrelationsWrites(table))
  /\ UNCHANGED <<route, raw, xs, ys, topK>>

FrameFirstDateTrend ==
  /\ fn = "init"
  /\ fn' = "firstDateTrend"
  /\ ret' = firstDateTrend(table)
  /\ table' = InPlaceAll(table, FirstDateTrendWrites(table))
  /\ UNCHANGED <<route, raw, xs, ys, topK>>

FrameDuplicateRows ==
  /\ fn = "init"
  /\ fn' = "duplicateRows"
  /\ ret' = duplicateRows(table)
  /\ table' = InPlaceAll(table, <<>>)
  /\ UNCHANGED <<route, raw, xs, ys, topK>>

FrameCategoryImbalance ==
  /\ fn = "init"
  /\ fn' = "categoryImbalance"
  /\ ret' = categoryImbalance(table)
  /\ table' = InPlaceAll(table, CategoryImbalanceWrites(table))
  /\ UNCHANGED <<route, raw, xs, ys, topK>>

FrameWeekdaySeasonality ==
  \E west \in BOOLEAN :
    /\ fn = "init"
    /\ fn' = "weekdaySeasonality"
    /\ ret' = weekdaySeasonality(table, west)
    /\ table' = InPlaceAll(table, <<>>)
    /\ UNCHANGED <<route, raw, xs, ys, topK>>

FrameMonthSeasonality ==
  \E west \in BOOLEAN :
    /\ fn = "init"
    /\ fn' = "monthSeasonality"
    /\ ret' = monthSeasonality(table, west)
    /\ table' = InPlaceAll(table, <<>>)
    /\ UNCHANGED <<route, raw, xs, ys, topK>>

FrameGenerateInsightsAll ==
  \E west \in BOOLEAN :
    /\ fn = "init"
    /\ fn' = "generateInsightsAll"
    /\ ret' = generateInsightsAll(table, west)
    /\ table' = InPlaceAll(table, GenerateInsightsAllWrites(table))
    /\ UNCHANGED <<route, raw, xs, ys, topK>>

\* The column names a chart configuration can carry.
ChartColumns == {"d", "x", "y", "a"}

\* The pairs of columns a chart of two axes can carry.
ChartAxes == {<<"d", "x">>, <<"d", "y">>, <<"x", "y">>, <<"a", "d">>, <<"y", "y">>}

BuildLineData ==
  \E axes \in ChartAxes :
    /\ fn = "init"
    /\ fn' = "buildLineData"
    /\ ret' = [x |-> axes[1], y |-> axes[2], data |-> buildLineData(table, axes[1], axes[2])]
    /\ table' = InPlaceAll(table, <<>>)
    /\ UNCHANGED <<route, raw, xs, ys, topK>>

BuildAreaData ==
  \E axes \in ChartAxes :
    /\ fn = "init"
    /\ fn' = "buildAreaData"
    /\ ret' = [x |-> axes[1], y |-> axes[2], data |-> buildAreaData(table, axes[1], axes[2])]
    /\ table' = InPlaceAll(table, <<>>)
    /\ UNCHANGED <<route, raw, xs, ys, topK>>

BuildBarTopK ==
  \E cat \in ChartColumns, k \in {1, 10} :
    /\ fn = "init"
    /\ fn' = "buildBarTopK"
    /\ ret' = [cat |-> cat, k |-> k, data |-> buildBarTopK(table, cat, k)]
    /\ table' = InPlaceAll(table, EntriesSort)
    /\ UNCHANGED <<route, raw, xs, ys, topK>>

BuildPieTopK ==
  \E cat \in ChartColumns, k \in {1, 6} :
    /\ fn = "init"
    /\ fn' = "buildPieTopK"
    /\ ret' = [cat |-> cat, k |-> k, data |-> buildPieTopK(table, cat, k)]
    /\ table' = InPlaceAll(table, EntriesSort)
    /\ UNCHANGED <<route, raw, xs, ys, topK>>

BuildScatterData ==
  \E axes \in ChartAxes :
    /\ fn = "init"
    /\ fn' = "buildScatterData"
    /\ ret' = [x |-> axes[1], y |-> axes[2], data |-> buildScatterData(table, axes[1], axes[2])]
    /\ table' = InPlaceAll(table, <<>>)
    /\ UNCHANGED <<route, raw, xs, ys, topK>>

BuildHistData ==
  \E col \in ChartColumns, bins \in {2, 12} :
    /\ fn = "init"
    /\ fn' = "buildHistData"
    /\ ret' = [col |-> col, bins |-> bins, data |-> buildHistData(table, col, bins)]
    /\ table' = InPlaceAll(table, <<>>)
    /\ UNCHANGED <<route, raw, xs, ys, topK>>

BuildBoxSummary ==
  \E col \in ChartColumns :
    /\ fn = "init"
    /\ fn' = "buildBoxSummary"
    /\ ret' = [col |-> col, summary |-> buildBoxSummary(table, col)]
    /\ table' = InPlaceAll(table, BuildBoxSummaryWrites(table, col))
    /\ UNCHANGED <<route, raw, xs, ys, topK>>

BuildCorrHeatmap ==
  \E cols \in {<<>>, <<"y", "x">>, <<"x", "a">>} :
    /\ fn = "init"
    /\ fn' = "buildCorrHeatmap"
    /\ ret' = buildCorrHeatmap(table, cols)
    /\ table' = InPlaceAll(table, <<>>)
    /\ UNCHANGED <<route, raw, xs, ys, topK>>

FrameSuggestCharts ==
  /\ fn = "init"
  /\ fn' = "suggestCharts"
  /\ ret' = suggestCharts(table)
  /\ table' = InPlaceAll(table, <<>>)
  /\ UNCHANGED <<route, raw, xs, ys, topK>>

NextFrame ==
  \/ FrameSuggestCharts
  \/ FrameCoerceTable
  \/ FrameProfileTable
  \/ FrameTopCorrelations
  \/ FrameFirstDateTrend
  \/ FrameDuplicateRows
  \/ FrameCategoryImbalance
  \/ FrameWeekdaySeasonality
  \/ FrameMonthSeasonality
  \/ FrameGenerateInsightsAll
  \/ BuildLineData
  \/ BuildAreaData
  \/ BuildBarTopK
  \/ BuildPieTopK
  \/ BuildScatterData
  \/ BuildHistData
  \/ BuildBoxSummary
  \/ BuildCorrHeatmap

SpecFrame == InitFrame /\ [][NextFrame]_vars

(***************************************************************************)
(* Claim about the input table.                                            *)
(***************************************************************************)
\* C18: every analysis function and chart builder leaves the table it is
\* given unchanged: column list, row order, row keys and cell values are
\* after the call what they were before it.
C18_TableUnchanged == [][table' = table]_vars

\* Whether the rows of t are in ascending order of the number in column col.
RowsAscending(t, col) ==
  \A i \in 1 .. Len(t.rows) - 1 : RowOrder(t, "number", col)[i][i + 1]

\* buildBoxSummary has returned a summary, and firstDateTrend a trend, for a
\* table whose rows are not in the order of the values that were sorted.
C18_Witness ==
  \/ /\ fn = "buildBoxSummary"
     /\ ret.summary # Null
     /\ ~RowsAscending(table, ret.col)
  \/ /\ fn = "firstDateTrend"
     /\ ret # Null
     /\ \E i \in 1 .. Len(table.rows) - 1 : ~RowOrder(table, "time", ret.dateCol)[i][i + 1]

(***************************************************************************)
(* Claim about the numbers of the insights and of the payload.             *)
(***************************************************************************)
\* Whether x, a number as the model writes one that is not an integer (a
\* fraction, a square root, a signed root, a tagged fraction, or one of
\* these rounded by toFixed), is a finite number: not NaN, no zero
\* denominator, no root of a negative.
RECURSIVE IsFiniteNumber(_)
IsFiniteNumber(x) ==
  IF "of" \in DOMAIN x THEN IsFiniteNumber(x.of)
  ELSE IF "sqrtOf" \in DOMAIN x THEN x.sqrtOf.d > 0 /\ x.sqrtOf.n >= 0
  ELSE IF "sq" \in DOMAIN x THEN x.k = "number" /\ x.sq.d > 0 /\ x.sq.n >= 0
  ELSE IF "q" \in DOMAIN x THEN x.k = "number" /\ x.q.d > 0
  ELSE IF "k" \in DOMAIN x THEN FALSE
  ELSE x.d > 0

\* The numbers of a NumericSummary (of the profile or of the payload).
SummaryFinite(numeric) ==
  /\ numeric.n >= 0 /\ numeric.outliersIqr >= 0 /\ numeric.outliersZ >= 0
  /\ numeric.min <= numeric.max
  /\ \A x \in {numeric.mean, numeric.median, numeric.stdev, numeric.q1, numeric.q3,
               numeric.iqr} : IsFiniteNumber(x)

ProfileFinite(profile, withDistinct) ==
  \A i \in 1 .. Len(profile) :
    /\ profile[i].missingPct >= 0
    /\ withDistinct => profile[i].distinct >= 0
    /\ profile[i].numeric \notin {Null, Undefined} => SummaryFinite(profile[i].numeric)

TrendFinite(trend, withSlope) ==
  trend # Null =>
    /\ withSlope => IsFiniteNumber(trend.slope)
    /\ IsFiniteNumber(trend.r2)
    /\ trend.anomalies >= 0
    /\ trend.changepoint # Null =>
         trend.changepoint.atIndex >= 0 /\ IsFiniteNumber(trend.changepoint.improvement)

AssociationsFinite(corrs, cc, cn, imb, dup) ==
  /\ \A i \in 1 .. Len(corrs) : IsFiniteNumber(corrs[i].r)
  /\ \A i \in 1 .. Len(cc) : IsFiniteNumber(cc[i].v)
  /\ \A i \in 1 .. Len(cn) : IsFiniteNumber(cn[i].eta2)
  /\ imb # Null => IsFiniteNumber(imb.topShare)
  /\ dup >= 0

BulletsFinite(bullets) ==
  \A i \in 1 .. Len(bullets) :
    LET b == bullets[i]
    IN  CASE b.kind \in {"missing", "shift", "eta"} -> b.pct >= 0
          [] b.kind \in {"iqr", "sigma", "anomalies", "duplicates"} -> b.count >= 0
          [] b.kind = "correlation" -> IsFiniteNumber(b.r)
          [] b.kind = "trend" -> IsFiniteNumber(b.r2)
          [] b.kind = "imbalance" -> IsFiniteNumber(b.topShare)
          [] b.kind = "weekday" -> b.bestWeekday >= 0
          [] b.kind = "month" -> b.peak >= 1 /\ b.trough >= 1
          [] b.kind = "cramersV" -> IsFiniteNumber(b.v)

\* C19: every number in the result of generateInsightsAll and in the payload
\* of buildAiAnalysisPayload is a finite number: no NaN and no division by
\* zero reaches the profile, the correlations, the categorical associations,
\* the trend, the seasonality, the imbalance or the bullets.
C19_NumbersFinite ==
  /\ fn = "generateInsightsAll" =>
       /\ ProfileFinite(ret.profile, TRUE)
       /\ BulletsFinite(ret.bullets)
       /\ TrendFinite(ret.extras.trend, TRUE)
       /\ AssociationsFinite(ret.extras.corrs, ret.extras.catCat, ret.extras.catNum,
                             ret.extras.imb, ret.extras.dup)
       /\ ret.extras.wSeason # Null =>
            ret.extras.wSeason.bestWeekday >= 0
              /\ IsFiniteNumber(ret.extras.wSeason.bestWeekdayAvg)
       /\ ret.extras.mSeason # Null =>
            ret.extras.mSeason.peakMonth >= 0 /\ ret.extras.mSeason.troughMonth >= 0
  /\ fn = "buildAiAnalysisPayload" =>
       /\ ProfileFinite(ret.profile, FALSE)
       /\ BulletsFinite(ret.bullets)
       /\ TrendFinite(ret.trend, FALSE)
       /\ AssociationsFinite(ret.correlations, ret.categorical.catCatTop,
                             ret.categorical.catNumTop, ret.imbalance, ret.duplicates)
       /\ ret.seasonality.weekday # Null =>
            ret.seasonality.weekday.bestWeekday >= 0
              /\ IsFiniteNumber(ret.seasonality.weekday.bestWeekdayAvg)
       /\ ret.seasonality.month # Null =>
            ret.seasonality.month.peakMonth >= 0 /\ ret.seasonality.month.troughMonth >= 0

\* A payload has been built for a table in which a pair of number columns has
\* no defined correlation and a pair of string columns no defined Cramer's V
\* (a constant column in each), and for which a trend is reported.
C19_Witness ==
  /\ fn = "buildAiAnalysisPayload"
  /\ \E c \in PairResults(table) : c.r = NaN
  /\ \E i, j \in 1 .. Len(InferredAs(table, "string")) :
       /\ i < j
       /\ cramersV(ColVals(table, InferredAs(table, "string")[i]),
                   ColVals(table, InferredAs(table, "string")[j])) = NaN
  /\ ret.trend # Null
  /\ ret.correlations # <<>>

(***************************************************************************)
(* The AI route and its clients: the environment the server runs in, the   *)
(* bodies posted to /api/ai-insights, and what Groq answers.               *)
(***************************************************************************)
Environments ==
  {[AI_PROVIDER |-> p, GROQ_API_KEY |-> k] :
     p \in {Undefined, Str(""), Str("groq"), Str("GROQ"), Str("openai"), Str("none")},
     k \in {Undefined, Str(""), Str("gsk_key")}}

\* An analysis object with no member.
EmptyAnalysis ==
  [profile |-> Undefined, correlations |-> Undefined, trend |-> Undefined,
   imbalance |-> Undefined, duplicates |-> Undefined, categorical |-> Undefined,
   chartsSummary |-> Undefined]

\* A payload of generateAI with findings of every kind, one with none, and
\* the summary the Charts tab posts.
Analyses ==
  { EmptyAnalysis,
    [EmptyAnalysis EXCEPT
       !.profile = Arr(<<[name |-> "x", missingPct |-> Num(20),
                          numeric |-> [outliersIqr |-> Num(1), outliersZ |-> Num(0)]],
                         [name |-> "a", missingPct |-> Num(50), numeric |-> Undefined]>>),
       !.correlations = Arr(<<[a |-> "x", b |-> "y", r |-> Rat(-9, 10), kind |-> "pearson"]>>),
       !.trend = [dateCol |-> "d", numCol |-> "x", r2 |-> Rat(3, 4), dir |-> "up"],
       !.imbalance = [column |-> "a", topCategory |-> "u", topShare |-> Rat(60, 1)],
       !.duplicates = Num(2),
       !.categorical = [catCatTop |-> Arr(<<[a |-> "a", b |-> "b", v |-> Rat(1, 2)]>>),
                        catNumTop |-> Arr(<<[cat |-> "a", num |-> "x", eta2 |-> Rat(1, 5)]>>)]],
    [EmptyAnalysis EXCEPT
       !.profile = Arr(<<[name |-> "x", missingPct |-> Num(9), numeric |-> Undefined]>>),
       !.correlations = Arr(<<[a |-> "x", b |-> "y", r |-> Rat(1, 2), kind |-> "pearson"]>>),
       !.trend = Null,
       !.imbalance = Null,
       !.duplicates = Num(0),
       !.categorical = [catCatTop |-> Arr(<<>>), catNumTop |-> Arr(<<>>)]],
    [EmptyAnalysis EXCEPT
       !.chartsSummary =
          [charts |-> Arr(<<[type |-> "line", x |-> "d", y |-> "x", yMin |-> Num(1),
                             yMax |-> Num(3), cat |-> Undefined, k |-> Undefined,
                             top |-> Undefined, points |-> Undefined],
                            [type |-> "barTopK", x |-> Undefined, y |-> Undefined,
                             yMin |-> Undefined, yMax |-> Undefined, cat |-> "a", k |-> 10,
                             top |-> Arr(<<[name |-> "u", count |-> Num(3), value |-> Undefined],
                                           [name |-> "v", count |-> Undefined, value |-> Num(1)]>>),
                             points |-> Undefined],
                            [type |-> "scatter", x |-> "x", y |-> "y", yMin |-> Undefined,
                             yMax |-> Undefined, cat |-> Undefined, k |-> Undefined,
                             top |-> Undefined, points |-> Num(5)]>>)]],
    [EmptyAnalysis EXCEPT !.chartsSummary = [charts |-> Undefined]] }

\* What req.json().catch(() => ({})) yields: Undefined stands for a body
\* that is not JSON or has no member analysis.
Bodies ==
  {Undefined, [analysis |-> Null], [analysis |-> Str("x")]}
    \cup {[analysis |-> a] : a \in Analyses}

\* The objects the content of a Groq answer parses to.
ParsedAnswers ==
  {[narrative |-> n, recommendations |-> r, risks |-> k, nextCharts |-> Undefined] :
     n \in {Undefined, Str(""), Str("  "), Str("Sales grow."), Num(1)},
     r \in {Undefined, Arr(<<>>), Arr(<<Num(1)>>), Arr(<<Str("Impute x."), Num(1)>>)},
     k \in {Undefined, Arr(<<Str("Few rows.")>>)}}

\* How the call of Groq settles.
Upstreams ==
  {[kind |-> "rejected"], [kind |-> "notOk"], [kind |-> "ok", parsed |-> Null]}
    \cup {[kind |-> "ok", parsed |-> p] : p \in ParsedAnswers}

InitAi ==
  /\ raw = NoTable
  /\ table = NoTable
  /\ xs = NoSeries
  /\ ys = NoSeries
  /\ topK = 0
  /\ fn = "init"
  /\ ret = Null
  /\ \E env \in Environments : route = [NoRoute EXCEPT !.env = env]

\* POST /api/ai-insights up to its first return, or to the call of Groq.
Post ==
  /\ route.pc = "idle"
  /\ \E body \in Bodies :
       route' = [route EXCEPT
                   !.body = body,
                   !.response = BeforeFetch(route.env, body),
                   !.pc = IF BeforeFetch(route.env, body) = Undefined
                          THEN "fetching" ELSE "done"]
  /\ UNCHANGED <<raw, table, xs, ys, topK, fn, ret>>

\* The call of Groq settles and the handler returns.
GroqSettles ==
  /\ route.pc = "fetching"
  /\ \E upstream \in Upstreams :
       route' = [route EXCEPT !.response = AfterFetch(route.body.analysis, upstream),
                              !.pc = "done"]
  /\ UNCHANGED <<raw, table, xs, ys, topK, fn, ret>>

NextAi == Post \/ GroqSettles

SpecAi == InitAi /\ [][NextAi]_vars

(***************************************************************************)
(* Claim about the provider and the key.                                   *)
(***************************************************************************)
\* AI_PROVIDER is groq, in any case of letters.
ProviderIsGroq(env) ==
  env.AI_PROVIDER \notin {Undefined, Str("")} /\ ToLowerCase(env.AI_PROVIDER.s) = "groq"

KeyIsSet(env) == env.GROQ_API_KEY \notin {Undefined, Str("")}

\* C20: Groq is called only when AI_PROVIDER is groq and GROQ_API_KEY is set;
\* in every other configuration a request that carries an analysis object is
\* answered with the deterministic rule-based fallback.
C20_FallbackUnlessGroqAndKey ==
  /\ route.pc = "fetching" => ProviderIsGroq(route.env) /\ KeyIsSet(route.env)
  /\ (/\ route.pc = "done"
      /\ route.body # Undefined
      /\ ~NotAnObject(route.body.analysis)
      /\ ~(ProviderIsGroq(route.env) /\ KeyIsSet(route.env)))
     => route.response = Ok(Deterministic(route.body.analysis))

(***************************************************************************)
(* Ingestion (src/app/page.tsx, src/app/api/fetch-json/route.ts).  A JSON  *)
(* document is null, a number, a string, an array Arr(items) or an object  *)
(* JObj(keys, fields), keys being the keys in the order of the text.  A    *)
(* text is a sequence of pieces, the piece "." being the separator of a    *)
(* records path.                                                           *)
(***************************************************************************)
JObj(keys, fields) == [keys |-> keys, fields |-> fields]

IsArray(v) == "items" \in DOMAIN v

\* typeof x === "object" && x !== null && !Array.isArray(x)
IsPlainObject(v) == "fields" \in DOMAIN v

\* typeof x === "object" && x !== null
IsObject(v) == IsArray(v) \/ IsPlainObject(v)

\* Boolean(v) of a JSON value.
JsonTruthy(v) ==
  IF IsObject(v) THEN TRUE
  ELSE IF v.k = "number" THEN v.v # 0
  ELSE IF v.k = "string" THEN v.s # ""
  ELSE FALSE

\* Object.keys(x) of a plain object.
KeysOf(x) == ObjectKeys(x.keys)

\* v[key] of a plain object; of an array or a primitive the keys of a
\* records path name no property.
Property(v, key) ==
  IF IsPlainObject(v) /\ key \in DOMAIN v.fields THEN v.fields[key] ELSE Undefined

\* isArrayOfObjects (page.tsx)
isArrayOfObjects(data) ==
  /\ IsArray(data)
  /\ Len(data.items) > 0
  /\ \A i \in 1 .. Len(data.items) : IsPlainObject(data.items[i])

\* path.split("."): the pieces between the separators, "" where two
\* separators meet or the text begins or ends with one.
RECURSIVE SplitDots(_, _)
SplitDots(path, piece) ==
  IF path = <<>> THEN <<piece>>
  ELSE IF path[1] = "." THEN <<piece>> \o SplitDots(Tail(path), "")
  ELSE SplitDots(Tail(path), path[1])

NonEmptyPiece(piece) == piece # ""

\* pickRecords of the route that answers 400 to an empty row set.
RECURSIVE Walk(_, _)
Walk(cur, parts) ==
  IF parts = <<>> THEN cur ELSE Walk(Property(cur, parts[1]), Tail(parts))

pickRecords(root, path) ==
  IF path = <<>> THEN root ELSE Walk(root, SelectSeq(SplitDots(path, ""), NonEmptyPiece))

\* toArrayOfObjects: JSON has no value x for which `x && typeof x ===
\* "object"` differs from `x !== null && typeof x === "object"`.
toArrayOfObjects(data) ==
  IF IsArray(data) /\ \A i \in 1 .. Len(data.items) : IsPlainObject(data.items[i])
    THEN data.items
    ELSE <<>>

\* The columns of both routes: the keys of the rows that are plain objects,
\* each once, in the order of a Set.
RECURSIVE KeysOfRows(_)
KeysOfRows(rows) ==
  IF rows = <<>> THEN <<>>
  ELSE (IF IsPlainObject(rows[1]) THEN KeysOf(rows[1]) ELSE <<>>) \o KeysOfRows(Tail(rows))

UnionOfKeys(rows) == FirstOccurrences(KeysOfRows(rows), {})

\* An upstream answer: its status and its body, NotJson for a body that
\* resp.json() rejects.
NotJson == [k |-> "not json"]

RouteOk(columns, rows) == [ok |-> TRUE, columns |-> columns, rows |-> rows]

RouteError(message) == [ok |-> FALSE, error |-> message]

\* POST of the route that rejects.
FetchJsonRejecting(url, recordsPath, upstream) ==
  IF url = <<>> THEN RouteError("Missing url")
  ELSE IF ~upstream.ok THEN RouteError("HTTP status")
  ELSE IF upstream.body = NotJson THEN RouteError("Fetch error")
  ELSE
    LET rows == toArrayOfObjects(pickRecords(upstream.body, recordsPath))
    IN  IF rows = <<>> THEN RouteError("Expected an array of objects")
        ELSE RouteOk(UnionOfKeys(rows), rows)

\* getByPath of the route that wraps: a falsy value on the way gives
\* undefined.
RECURSIVE Reduce(_, _)
Reduce(acc, parts) ==
  IF parts = <<>> THEN acc
  ELSE Reduce(IF acc # Undefined /\ JsonTruthy(acc) THEN Property(acc, parts[1]) ELSE Undefined,
              Tail(parts))

getByPath(obj, path) == IF path = <<>> THEN obj ELSE Reduce(obj, SplitDots(path, ""))

\* x => (typeof x === "object" && x !== null ? x : { value: x })
Wrapped(x) == IF IsObject(x) THEN x ELSE JObj(<<"value">>, [value |-> x])

WrappedAll(items) == [i \in 1 .. Len(items) |-> Wrapped(items[i])]

\* The first of the wrappers data, items, results, records that is an array.
RECURSIVE FirstArrayOf(_, _)
FirstArrayOf(data, candidates) ==
  IF candidates = <<>> THEN Undefined
  ELSE IF IsArray(Property(data, candidates[1])) THEN Property(data, candidates[1])
  ELSE FirstArrayOf(data, Tail(candidates))

coerceToRows(data) ==
  IF data # Undefined /\ IsArray(data) THEN WrappedAll(data.items)
  ELSE IF data # Undefined /\ IsPlainObject(data)
    THEN LET v == FirstArrayOf(data, <<"data", "items", "results", "records">>)
         IN  IF v # Undefined THEN WrappedAll(v.items) ELSE <<data>>
  ELSE <<JObj(<<"value">>, [value |-> data])>>

\* What JSON.stringify and res.json() make of the rows: a key whose value is
\* undefined is left out, every other value of a document is kept.
Serialized(rows) ==
  [i \in 1 .. Len(rows) |->
     IF IsPlainObject(rows[i]) /\ \E key \in DOMAIN rows[i].fields : rows[i].fields[key] = Undefined
       THEN JObj(SelectSeq(rows[i].keys, LAMBDA key : rows[i].fields[key] # Undefined),
                 [key \in {c \in DOMAIN rows[i].fields : rows[i].fields[c] # Undefined} |->
                    rows[i].fields[key]])
       ELSE rows[i]]

\* POST of the route that wraps.  String(body.url || "").trim() is empty for
\* the empty text.
FetchJsonWrapping(url, recordsPath, upstream) ==
  IF url = <<>> THEN RouteError("Missing 'url' in body.")
  ELSE IF ~upstream.ok THEN RouteError("Upstream HTTP status")
  ELSE IF upstream.body = NotJson THEN RouteError("Fetch/parse failed.")
  ELSE
    LET picked == IF recordsPath # <<>> THEN getByPath(upstream.body, recordsPath)
                  ELSE upstream.body
        rows == coerceToRows(picked)
    IN  RouteOk(UnionOfKeys(rows), Serialized(rows))

\* The table { columns, rows } as the analysis functions read it: r[c] of a
\* row that is an array names no column.
AsTable(columns, rows) ==
  [columns |-> columns,
   rows |-> [i \in 1 .. Len(rows) |->
               IF IsPlainObject(rows[i]) THEN rows[i].fields ELSE [c \in {} |-> Null]]]

\* The state of the dashboard besides its table.
NoDash ==
  [csvFileName |-> "", toast |-> <<>>, active |-> "Load", profile |-> Null, correls |-> Null,
   trend |-> Null, insights |-> Null, charts |-> Null, ai |-> Null, chartsAI |-> Null]

\* afterLoad(raw) followed by showToast(toast), csvFileName being the name
\* the handler has set: the table and the state it leaves.
afterLoad(rawTable, west, csvFileName, toast) ==
  CHOOSE loaded \in
    {[table |-> newTable,
      dash |-> [csvFileName |-> csvFileName, toast |-> toast, active |-> "Preview",
                profile |-> profileTable(newTable), correls |-> topCorrelations(newTable, 3),
                trend |-> firstDateTrend(newTable),
                insights |-> [bullets |-> full.bullets, narrative |-> full.narrative],
                charts |-> suggestCharts(newTable), ai |-> Null, chartsAI |-> Null]] :
       newTable \in {coerceTable(rawTable)}, full \in {generateInsightsAll(coerceTable(rawTable), west)}} :
    TRUE

\* JSON.parse of the texts of the model.
SyntaxError == [k |-> "SyntaxError"]

JsonParse(text) ==
  CASE text = "[]" -> Arr(<<>>)
    [] text = "[{\"a\":1,\"b\":\"x\"}]" -> Arr(<<JObj(<<"a", "b">>, [a |-> Num(1), b |-> Str("x")])>>)
    [] text = "[{\"b\":\"y\"},{\"a\":2}]" ->
         Arr(<<JObj(<<"b">>, [b |-> Str("y")]), JObj(<<"a">>, [a |-> Num(2)])>>)
    [] text = "[{\"a\":1},5]" -> Arr(<<JObj(<<"a">>, [a |-> Num(1)]), Num(5)>>)
    [] text = "[null]" -> Arr(<<Null>>)
    [] text = "[[1]]" -> Arr(<<Arr(<<Num(1)>>)>>)
    [] text = "{\"a\":1}" -> JObj(<<"a">>, [a |-> Num(1)])
    [] text = "7" -> Num(7)
    [] OTHER -> SyntaxError

(***************************************************************************)
(* The dashboard's loaders (page.tsx).  raw is the table the last call of  *)
(* afterLoad was given, its rows as documents; table is the table the      *)
(* dashboard keeps, ret the rest of its state, and route the request to    *)
(* /api/fetch-json that fetchFromUrl is waiting for.                       *)
(***************************************************************************)
MaxDocItems == 2   \* items of an array that a loader is given

\* What an array of a document can hold: objects, one of them omitting a
\* key, a number, null and an array.
DocItems ==
  { JObj(<<"a", "b">>, [a |-> Num(1), b |-> Str("x")]),
    JObj(<<"b">>, [b |-> Str("2024-01-01")]),
    Num(5), Null, Arr(<<Num(1)>>) }

DocArrays == {Arr(items) : items \in SeqsUpTo(DocItems, MaxDocItems)}

\* The documents an upstream or a sample file can hold: an array, an array
\* under a key, an object, a number.
Documents ==
  DocArrays
    \cup {JObj(<<"data">>, [data |-> arr]) : arr \in DocArrays}
    \cup {JObj(<<"a">>, [a |-> Num(1)]), Num(0)}

\* The texts pasted into the JSON box.
JsonTexts ==
  {"[]", "[{\"a\":1,\"b\":\"x\"}]", "[{\"b\":\"y\"},{\"a\":2}]", "[{\"a\":1},5]", "[null]",
   "[[1]]", "{\"a\":1}", "7", "[{\"a\":1}", ""}

\* res.data of Papa.parse with header: true: one object per line that is
\* not empty, keyed by the header.
CsvLines ==
  { JObj(<<"a", "b">>, [a |-> Num(1), b |-> Str("x")]),
    JObj(<<"a", "b">>, [a |-> Null, b |-> Str("2024-01-01")]) }

CsvResults == SeqsUpTo(CsvLines, MaxDocItems)

\* The records paths typed into the form.
RecordsPaths == {<<>>, <<"data">>, <<"data", ".", "rows">>, <<".", "data">>}

Urls == {<<>>, <<"https://example.org/data">>}

Upstreams21 ==
  [ok : BOOLEAN, body : {NotJson}] \cup [ok : {TRUE}, body : Documents]
    \cup [ok : {FALSE}, body : {Arr(<<>>)}]

InitIngest ==
  /\ raw = NoTable
  /\ route = NoRoute
  /\ table = NoTable
  /\ xs = NoSeries
  /\ ys = NoSeries
  /\ topK = 0
  /\ fn = "init"
  /\ ret = NoDash

\* The handler `name` has called afterLoad({ columns, rows }) and shown the
\* toast.
Loads(name, columns, rows, csvFileName, toast) ==
  \E west \in BOOLEAN :
    \E loaded \in {afterLoad(AsTable(columns, rows), west, csvFileName, toast)} :
      /\ fn' = name
      /\ raw' = [columns |-> columns, rows |-> rows]
      /\ table' = loaded.table
      /\ ret' = loaded.dash

\* The handler `name` has shown the toast and returned.
Rejects(name, csvFileName, toast) ==
  /\ fn' = name
  /\ ret' = [ret EXCEPT !.csvFileName = csvFileName, !.toast = toast]
  /\ UNCHANGED <<raw, table>>

\* loadCSVFile: the file's name is kept before the file is parsed.
LoadCSVFile ==
  /\ fn = "init"
  /\ \E failed \in BOOLEAN, data \in CsvResults :
       IF failed THEN Rejects("loadCSVFile", "file.csv", <<"Failed to parse CSV">>)
       ELSE IF data = <<>> THEN Rejects("loadCSVFile", "file.csv", <<"No rows found in CSV">>)
       ELSE Loads("loadCSVFile", KeysOf(data[1]), data, "file.csv", <<"Loaded CSV", Len(data)>>)
  /\ UNCHANGED <<route, xs, ys, topK>>

LoadJSONText ==
  /\ fn = "init"
  /\ \E text \in JsonTexts :
       \E parsed \in {JsonParse(text)} :
         IF parsed = SyntaxError THEN Rejects("loadJSONText", ret.csvFileName, <<"Invalid JSON">>)
         ELSE IF ~isArrayOfObjects(parsed)
           THEN Rejects("loadJSONText", ret.csvFileName,
                        <<"Expected a non-empty array of objects">>)
         ELSE Loads("loadJSONText", KeysOf(parsed.items[1]), parsed.items, "",
                    <<"Loaded JSON", Len(parsed.items)>>)
  /\ UNCHANGED <<route, xs, ys, topK>>

\* loadSampleCSV: the text of /sample-data/sales.csv is whatever is served.
LoadSampleCSV ==
  /\ fn = "init"
  /\ \E data \in CsvResults :
       IF data = <<>> THEN Rejects("loadSampleCSV", ret.csvFileName, <<"No rows in sample CSV">>)
       ELSE Loads("loadSampleCSV", KeysOf(data[1]), data, "sales.csv",
                  <<"Loaded sample CSV", Len(data)>>)
  /\ UNCHANGED <<route, xs, ys, topK>>

\* loadSampleJSON: a body that is no JSON makes res.json() throw, and the
\* handler ends without a toast.
LoadSampleJSON ==
  /\ fn = "init"
  /\ \E res \in Upstreams21 :
       IF ~res.ok THEN Rejects("loadSampleJSON", ret.csvFileName, <<"Sample JSON not found">>)
       ELSE IF res.body = NotJson THEN Rejects("loadSampleJSON", ret.csvFileName, ret.toast)
       ELSE IF ~isArrayOfObjects(res.body)
         THEN Rejects("loadSampleJSON", ret.csvFileName, <<"Sample JSON must be array of objects">>)
       ELSE Loads("loadSampleJSON", KeysOf(res.body.items[1]), res.body.items, "",
                  <<"Loaded sample JSON", Len(res.body.items)>>)
  /\ UNCHANGED <<route, xs, ys, topK>>

\* fetchFromUrl up to its await: the route that is deployed answers the
\* request.
FetchFromUrl ==
  /\ fn = "init"
  /\ \E url \in Urls, recordsPath \in RecordsPaths, upstream \in Upstreams21,
        deployed \in {"rejecting", "wrapping"} :
       route' = [env |-> [fetchJson |-> deployed], pc |-> "fetch-json",
                 body |-> [url |-> url, recordsPath |-> recordsPath],
                 response |-> IF deployed = "rejecting"
                                THEN FetchJsonRejecting(url, recordsPath, upstream)
                                ELSE FetchJsonWrapping(url, recordsPath, upstream)]
  /\ fn' = "fetchFromUrl"
  /\ UNCHANGED <<raw, table, xs, ys, topK, ret>>

\* fetchFromUrl after its await.
FetchSettles ==
  /\ route.pc = "fetch-json"
  /\ route' = [route EXCEPT !.pc = "idle"]
  /\ IF ~route.response.ok
       THEN Rejects("fetchFromUrl:done", ret.csvFileName, <<route.response.error>>)
       ELSE Loads("fetchFromUrl:done", route.response.columns, route.response.rows, "",
                  <<"Fetched", Len(route.response.rows)>>)
  /\ UNCHANGED <<xs, ys, topK>>

NextIngest ==
  \/ LoadCSVFile
  \/ LoadJSONText
  \/ LoadSampleCSV
  \/ LoadSampleJSON
  \/ FetchFromUrl
  \/ FetchSettles

SpecIngest == InitIngest /\ [][NextIngest]_vars

(***************************************************************************)
(* Claim about the loaders.                                                *)
(***************************************************************************)
\* C21: whatever the loader (CSV upload, pasted JSON, a sample file, the
\* fetch-json route followed by fetchFromUrl), afterLoad is only called with
\* a table that has a row and whose rows are all objects.
C21_LoadedRowsWellFormed ==
  raw # NoTable =>
    /\ Len(raw.rows) > 0
    /\ \A i \in 1 .. Len(raw.rows) : IsPlainObject(raw.rows[i])

(***************************************************************************)
(* Claim about the points of firstDateTrend.                               *)
(***************************************************************************)
\* The (t, y) of the rows of the coerced table t that hold a date in column
\* dc and a number in column nc, in ascending order of t, rows of the same t
\* in row order.
ValidPoints(t, dc, nc) ==
  LET rows == SelectSeq(t.rows, LAMBDA r : Get(r, dc).k = "Date" /\ Get(r, nc).k = "number")
      Before(a, b) ==
        \/ Get(rows[a], dc).t < Get(rows[b], dc).t
        \/ Get(rows[a], dc).t = Get(rows[b], dc).t /\ a < b
  IN  [p \in 1 .. Len(rows) |->
         LET i == CHOOSE i \in 1 .. Len(rows) :
                    Cardinality({j \in 1 .. Len(rows) : Before(j, i)}) = p - 1
         IN  [t |-> GetTime(Get(rows[i], dc)), y |-> Get(rows[i], nc)]]

\* C22: the slope, r2, changepoint and anomalies firstDateTrend reports are
\* those of the points of the rows that hold a valid date and a finite
\* number, taken in ascending order of their timestamps; a row whose date
\* cell or number cell is missing contributes no point.
C22_PointsOfValidRows ==
  (fn = "firstDateTrend" /\ ret # Null) =>
    /\ Len(ValidPoints(table, ret.dateCol, ret.numCol)) >= 3
    /\ ret = TrendOf(ret.dateCol, ret.numCol, ValidPoints(table, ret.dateCol, ret.numCol))

(***************************************************************************)
(* Claim about the pairing of topCorrelations and corrMatrix.              *)
(***************************************************************************)
\* The rows of t in which the columns a and b both hold a number.
PairedRows(t, a, b) ==
  SelectSeq(t.rows, LAMBDA r : Get(r, a).k = "number" /\ Get(r, b).k = "number")

\* What topCorrelations pushes for the columns a and b when x[i] and y[i]
\* are the cells of the i-th of these rows.
PushedPaired(t, a, b) ==
  LET rows == PairedRows(t, a, b)
      x == [i \in 1 .. Len(rows) |-> rows[i][a].v]
      y == [i \in 1 .. Len(rows) |-> rows[i][b].v]
  IN  IF Len(rows) < 3 THEN <<>>
      ELSE PushIfFinite(a, b, pearson(Series(x), Series(y)), "pearson")
           \o PushIfFinite(a, b, spearman(x, y), "spearman")

RECURSIVE PushedPairedAll(_, _, _)
PushedPairedAll(t, numCols, ijs) ==
  IF ijs = <<>> THEN <<>>
  ELSE PushedPaired(t, numCols[ijs[1][1]], numCols[ijs[1][2]])
       \o PushedPairedAll(t, numCols, Tail(ijs))

\* C23: the correlations topCorrelations reports are those of the series
\* whose i-th x and i-th y are the cells of one row, the rows being those in
\* which both columns hold a finite number.
C23_PairsOfOneRow ==
  fn = "topCorrelations" =>
    ret = SortAndSlice(PushedPairedAll(table, NumCols(table),
                                       PairsFrom(1, 2, Len(NumCols(table)))),
                       topK, TRUE)

(***************************************************************************)
(* Claim about the column types of the analyses.                           *)
(***************************************************************************)
\* The columns of t to which profileTable gives the type `type`, in column
\* order.
ProfileTyped(t, type) ==
  SelectSeq(t.columns, LAMBDA c : ColumnProfile(t, c).type = type)

\* The result `res` of an analysis that takes the first date column and the
\* first number column names the first columns profileTable types so, and
\* there is no result without them.
TypedAsProfile(t, res) ==
  IF ProfileTyped(t, "date") = <<>> \/ ProfileTyped(t, "number") = <<>> THEN res = Null
  ELSE res # Null => /\ res.dateCol = ProfileTyped(t, "date")[1]
                     /\ res.numCol = ProfileTyped(t, "number")[1]

\* C24: a row that omits the key of a column counts as a missing value of
\* that column in every analysis: the columns topCorrelations,
\* firstDateTrend, categoryImbalance, the seasonality functions,
\* suggestCharts and generateInsightsAll take as number, date or string
\* columns are those profileTable reports with that type.
C24_TypesAsProfile ==
  /\ fn = "topCorrelations" =>
       \A i \in 1 .. Len(ret) :
         \E j, k \in 1 .. Len(ProfileTyped(table, "number")) :
           ret[i].a = ProfileTyped(table, "number")[j] /\ ret[i].b = ProfileTyped(table, "number")[k]
  /\ fn \in {"firstDateTrend", "weekdaySeasonality", "monthSeasonality"} =>
       TypedAsProfile(table, ret)
  /\ fn = "categoryImbalance" =>
       IF ProfileTyped(table, "string") = <<>> THEN ret = Null
       ELSE ret # Null /\ ret.column = ProfileTyped(table, "string")[1]
  /\ fn = "suggestCharts" =>
       \A i \in 1 .. Len(ret) :
         /\ ret[i].type \in {"barTopK", "donut"} => ret[i].cat = ProfileTyped(table, "string")[1]
         /\ ret[i].type \in {"hist", "box"} => ret[i].col = ProfileTyped(table, "number")[1]
         /\ ret[i].type \in {"line", "area"} =>
              /\ ret[i].x = ProfileTyped(table, "date")[1]
              /\ ret[i].y = ProfileTyped(table, "number")[1]
  /\ fn = "generateInsightsAll" =>
       /\ TypedAsProfile(table, ret.extras.trend)
       /\ ret.extras.imb # Null =>
            /\ ProfileTyped(table, "string") # <<>>
            /\ ret.extras.imb.column = ProfileTyped(table, "string")[1]

(***************************************************************************)
(* Claims about the seasonality functions.                                 *)
(***************************************************************************)
\* The cell holds a date, or a string that reads as one.
HoldsDate(v) == v.k = "Date" \/ (v.k = "string" /\ DateParse(Trim(v.s)) # NaN)

\* The cell holds a number, or a string that reads as one.
HoldsNumber(v) == v.k = "number" \/ (v.k = "string" /\ NUMERIC_RE(Trim(v.s)))

\* The rows of t that hold a date in column dc and a number in column nc.
SeasonRows(t, dc, nc) ==
  {i \in 1 .. Len(t.rows) : HoldsDate(Get(t.rows[i], dc)) /\ HoldsNumber(Get(t.rows[i], nc))}

\* Of these rows, those whose date falls into bucket b: a weekday when
\* `weekly`, a month otherwise.
RowsInBucket(t, dc, nc, weekly, west, b) ==
  {i \in SeasonRows(t, dc, nc) :
     b = IF weekly THEN GetDay(GetTime(t.rows[i][dc]).v, west)
         ELSE GetMonth(GetTime(t.rows[i][dc]).v, west)}

\* The average of column nc over the rows `rows`, a set that is not empty.
AverageOver(t, nc, rows) ==
  Rat(Sum([i \in 1 .. Len(t.rows) |-> IF i \in rows THEN ToNumber(t.rows[i][nc]).v ELSE 0]),
      Cardinality(rows))

\* Bucket b holds a row, and no bucket that holds a row has a higher average
\* (a lower one when not `highest`).
ExtremeBucket(t, dc, nc, weekly, west, b, highest) ==
  /\ RowsInBucket(t, dc, nc, weekly, west, b) # {}
  /\ \A c \in 0 .. 11 :
       RowsInBucket(t, dc, nc, weekly, west, c) # {} =>
         IF highest
           THEN RLe(AverageOver(t, nc, RowsInBucket(t, dc, nc, weekly, west, c)),
                    AverageOver(t, nc, RowsInBucket(t, dc, nc, weekly, west, b)))
           ELSE RLe(AverageOver(t, nc, RowsInBucket(t, dc, nc, weekly, west, b)),
                    AverageOver(t, nc, RowsInBucket(t, dc, nc, weekly, west, c)))

\* C25: when a row has a valid date and a finite number, bestWeekday,
\* peakMonth and troughMonth are each a bucket that holds such a row, with
\* the highest, the highest and the lowest average among the buckets that
\* hold one (in one of the time zones the dates can be read in).
C25_ExtremeBucketsHoldData ==
  /\ (fn = "weekdaySeasonality" /\ ret # Null
        /\ SeasonRows(table, ret.dateCol, ret.numCol) # {}) =>
       \E west \in BOOLEAN :
         ExtremeBucket(table, ret.dateCol, ret.numCol, TRUE, west, ret.bestWeekday, TRUE)
  /\ (fn = "monthSeasonality" /\ ret # Null
        /\ SeasonRows(table, ret.dateCol, ret.numCol) # {}) =>
       \E west \in BOOLEAN :
         /\ ExtremeBucket(table, ret.dateCol, ret.numCol, FALSE, west, ret.peakMonth, TRUE)
         /\ ExtremeBucket(table, ret.dateCol, ret.numCol, FALSE, west, ret.troughMonth, FALSE)

\* The months into which a row with a date and a number falls.
MonthsWithData(t, dc, nc, west) ==
  {c \in 0 .. 11 : RowsInBucket(t, dc, nc, FALSE, west, c) # {}}

\* (peakAvg - troughAvg) / meanOfMonthlyAverages >= 0.30 over the averages
\* of the months with data; false when no month has data or the mean is 0.
StrongSeasonality(t, dc, nc, west) ==
  LET months == MonthsWithData(t, dc, nc, west)
      Avg(c) == AverageOver(t, nc, RowsInBucket(t, dc, nc, FALSE, west, c))
      mean == RDiv(RSum([c1 \in 1 .. 12 |-> IF c1 - 1 \in months THEN Avg(c1 - 1) ELSE RZero]),
                   RInt(Cardinality(months)))
  IN  /\ months # {}
      /\ mean # RZero
      /\ \E peak \in months, trough \in months :
           /\ \A c \in months : RLe(Avg(c), Avg(peak)) /\ RLe(Avg(trough), Avg(c))
           /\ RLe(Rat(3, 10), RDiv(RSub(Avg(peak), Avg(trough)), mean))

\* C26: monthSeasonality reports strong = true iff (peakAvg - troughAvg) /
\* meanOfMonthlyAverages >= 0.30, peakAvg and troughAvg being the highest
\* and the lowest monthly average and the mean that of the monthly averages;
\* generateInsightsAll emits the bullet of the monthly seasonality only when
\* strong is true.
C26_StrongIffAmplitude ==
  /\ (fn = "monthSeasonality" /\ ret # Null) =>
       \E west \in BOOLEAN :
         ret.strong <=> StrongSeasonality(table, ret.dateCol, ret.numCol, west)
  /\ fn = "generateInsightsAll" =>
       (BulletsOfKind(ret.bullets, "month") # <<>> =>
          ret.extras.mSeason # Null /\ ret.extras.mSeason.strong)

(***************************************************************************)
(* Ties between categories.                                                *)
(***************************************************************************)
\* The categories of column c of t, row by row.
CategoriesOf(t, c) == [i \in 1 .. Len(t.rows) |-> Category(t.rows[i], c)]

\* The first row of which category s is the category (0 when there is none).
FirstSeen(ks, s) ==
  IF \E i \in 1 .. Len(ks) : ks[i] = s
  THEN CHOOSE i \in 1 .. Len(ks) : ks[i] = s /\ \A j \in 1 .. i - 1 : ks[j] # s
  ELSE 0

\* The number of rows of category s.
SeenTimes(ks, s) == Cardinality({i \in 1 .. Len(ks) : ks[i] = s})

\* C27: when two categories of a column have equal counts, the category first
\* seen in row order comes first: categoryImbalance's topCategory is the
\* first seen of the most frequent categories, and of two entries of
\* buildBarTopK with equal counts the one first seen stands first, whatever
\* the keys look like.
C27_TiesByFirstSeen ==
  /\ (fn = "categoryImbalance" /\ ret # Null) =>
       LET ks == CategoriesOf(table, ret.column)
       IN  \A i \in 1 .. Len(ks) :
             SeenTimes(ks, ks[i]) >= SeenTimes(ks, ret.topCategory)
               => FirstSeen(ks, ret.topCategory) <= i
  /\ fn = "buildBarTopK" =>
       LET ks == CategoriesOf(table, ret.cat)
       IN  \A p, q \in 1 .. Len(ret.data) :
             (p < q /\ ret.data[p].count = ret.data[q].count)
               => FirstSeen(ks, ret.data[p].name) < FirstSeen(ks, ret.data[q].name)

(***************************************************************************)
(* The dashboard and its request for AI recommendations (page.tsx,         *)
(* generateAI, afterLoad, clearAll).  route is the /api/ai-insights route: *)
(* idle, awaiting Groq ("fetching"), or answered with the answer on its    *)
(* way to the dashboard ("done").  aiLoading is true, and the button that  *)
(* calls generateAI disabled, exactly while route.pc is not "idle".        *)
(***************************************************************************)
\* The integer whose square is n.
ISqrt(n) == CHOOSE p \in 0 .. n : p * p = n

\* The number a root of the payload is read back as, for the roots that are
\* fractions.
RationalRoot(x) ==
  LET root == IF "of" \in DOMAIN x THEN x.of ELSE x
  IN  IF "sq" \in DOMAIN root
      THEN Rat(root.sign * ISqrt(root.sq.n), ISqrt(root.sq.d))
      ELSE root

\* JSON.parse(JSON.stringify(analysis)) as the route reads it: arrays as
\* Arr(items), numbers as Num(n) or fractions, a member that is undefined
\* left out, a member the payload does not have reading as undefined.
Posted(analysis) ==
  [summary |-> analysis.summary,
   bullets |-> analysis.bullets,
   profile |-> Arr([i \in 1 .. Len(analysis.profile) |->
                      [name |-> analysis.profile[i].name,
                       type |-> analysis.profile[i].type,
                       missingPct |-> Num(analysis.profile[i].missingPct),
                       numeric |-> IF analysis.profile[i].numeric = Undefined THEN Undefined
                                   ELSE [analysis.profile[i].numeric EXCEPT
                                           !.outliersIqr = Num(@), !.outliersZ = Num(@)]]]),
   correlations |-> Arr([i \in 1 .. Len(analysis.correlations) |->
                           [analysis.correlations[i] EXCEPT !.r = RationalRoot(@)]]),
   trend |-> analysis.trend,
   seasonality |-> analysis.seasonality,
   duplicates |-> Num(analysis.duplicates),
   imbalance |-> analysis.imbalance,
   categorical |->
     [catCatTop |-> Arr([i \in 1 .. Len(analysis.categorical.catCatTop) |->
                           [analysis.categorical.catCatTop[i] EXCEPT !.v = RationalRoot(@)]]),
      catNumTop |-> Arr(analysis.categorical.catNumTop)],
   chartsSummary |-> Undefined]

\* The body generateAI posts for table t.
AiRequest(t, west) ==
  [analysis |-> Posted(buildAiAnalysisPayload(generateInsightsAll(t, west)))]

\* !data?.narrative and !data?.recommendations?.length, negated.
HasNarrative(data) == "narrative" \in DOMAIN data /\ data.narrative # ""

HasRecommendations(data) == "recommendations" \in DOMAIN data /\ data.recommendations # <<>>

\* data?.status === status
HasStatus(data, status) == "status" \in DOMAIN data /\ data.status = status

\* The fallback generateAI builds by itself.
ClientFallback(narrative) ==
  [status |-> "fallback", narrative |-> narrative, recommendations |-> <<>>, risks |-> <<>>,
   nextCharts |-> <<>>]

\* What generateAI stores in `ai` for the answer `data`.
StoredFor(data) ==
  IF (~HasNarrative(data) \/ ~HasRecommendations(data)) /\ ~HasStatus(data, "fallback")
  THEN ClientFallback("Deterministic fallback based on metrics.")
  ELSE data

\* The configurations of the route the dashboard runs against: Groq with a
\* key, Groq without a key, no provider.
DashEnvironments ==
  { [AI_PROVIDER |-> Undefined, GROQ_API_KEY |-> Str("gsk_key")],
    [AI_PROVIDER |-> Str("groq"), GROQ_API_KEY |-> Undefined],
    [AI_PROVIDER |-> Str("none"), GROQ_API_KEY |-> Undefined] }

InitDash ==
  /\ raw = NoTable
  /\ table = NoTable
  /\ xs = NoSeries
  /\ ys = NoSeries
  /\ topK = 0
  /\ fn = "init"
  /\ ret = NoDash
  /\ \E env \in DashEnvironments : route = [NoRoute EXCEPT !.env = env]

\* loadJSONText, at any time.
DashLoadJSONText ==
  /\ \E text \in JsonTexts :
       \E parsed \in {JsonParse(text)} :
         IF parsed = SyntaxError THEN Rejects("loadJSONText", ret.csvFileName, <<"Invalid JSON">>)
         ELSE IF ~isArrayOfObjects(parsed)
           THEN Rejects("loadJSONText", ret.csvFileName,
                        <<"Expected a non-empty array of objects">>)
         ELSE Loads("loadJSONText", KeysOf(parsed.items[1]), parsed.items, "",
                    <<"Loaded JSON", Len(parsed.items)>>)
  /\ UNCHANGED <<route, xs, ys, topK>>

\* clearAll (Reset).
ClearAll ==
  /\ fn' = "clearAll"
  /\ raw' = NoTable
  /\ table' = NoTable
  /\ ret' = [NoDash EXCEPT !.toast = ret.toast]
  /\ UNCHANGED <<route, xs, ys, topK>>

\* generateAI up to its await: it returns without a table; otherwise the
\* request reaches the route, which answers or goes on to call Groq.
GenerateAI ==
  /\ route.pc = "idle"
  /\ IF table = NoTable
       THEN fn' = "generateAI:return" /\ UNCHANGED <<route, table>>
       ELSE \E west \in BOOLEAN :
              \E body \in {AiRequest(table, west)} :
                /\ fn' = "generateAI"
                /\ table' = InPlaceAll(table, GenerateInsightsAllWrites(table))
                /\ route' = [route EXCEPT
                               !.body = body,
                               !.response = BeforeFetch(route.env, body),
                               !.pc = IF BeforeFetch(route.env, body) = Undefined
                                      THEN "fetching" ELSE "done"]
  /\ UNCHANGED <<raw, xs, ys, topK, ret>>

\* The call of Groq settles and the route answers.
DashGroqSettles ==
  /\ route.pc = "fetching"
  /\ \E upstream \in Upstreams :
       route' = [route EXCEPT !.response = AfterFetch(route.body.analysis, upstream),
                              !.pc = "done"]
  /\ UNCHANGED <<raw, table, xs, ys, topK, fn, ret>>

\* generateAI after its await: the answer is stored, or the fallback in its
\* place.
GenerateAIThen ==
  /\ route.pc = "done"
  /\ route' = [route EXCEPT !.pc = "idle"]
  /\ fn' = "generateAI:then"
  /\ ret' = [ret EXCEPT !.ai = StoredFor(route.response.data)]
  /\ UNCHANGED <<raw, table, xs, ys, topK>>

\* generateAI when fetch or res.json() rejects.
GenerateAICatch ==
  /\ route.pc = "done"
  /\ route' = [route EXCEPT !.pc = "idle"]
  /\ fn' = "generateAI:catch"
  /\ ret' = [ret EXCEPT !.ai = ClientFallback("Deterministic fallback (AI request failed).")]
  /\ UNCHANGED <<raw, table, xs, ys, topK>>

NextDash ==
  \/ DashLoadJSONText
  \/ ClearAll
  \/ GenerateAI
  \/ DashGroqSettles
  \/ GenerateAIThen
  \/ GenerateAICatch

SpecDash == InitDash /\ [][NextDash]_vars

(***************************************************************************)
(* Claims about the AI recommendations of the dashboard.                   *)
(***************************************************************************)
\* C28: the recommendations held in `ai` belong to the table that is loaded:
\* whenever `ai` is not null a table is loaded and the request that was
\* answered is the request of that table, so an answer that arrives after
\* afterLoad or clearAll is not stored.
C28_AiOfCurrentTable ==
  ret.ai # Null =>
    /\ table # NoTable
    /\ \E west \in BOOLEAN : route.body = AiRequest(table, west)

\* C29: an answer of the route with status "ai" is what generateAI stores:
\* once generateAI has handled such an answer, `ai` is that answer.
C29_AiAnswerIsStored ==
  (fn = "generateAI:then" /\ HasStatus(route.response.data, "ai"))
    => ret.ai = route.response.data

(***************************************************************************)
(* The caller of profileTable and firstDateTrend on the tables of up to    *)
(* eleven rows that carry the largest z-score: a run of equal cells        *)
(* followed by a run of other cells.                                       *)
(***************************************************************************)
MaxRunRows == 11   \* rows of a table of two runs

\* k cells v followed by m cells w.
Run(k, v, m, w) == [i \in 1 .. k + m |-> IF i <= k THEN v ELSE w]

\* The cells of a run: missing, or a number.
RunCells == {Str(""), Num(0), Num(1), Num(5)}

\* The tables of a date column d and a number column y made of two runs.
RunTables ==
  {coerceTable([columns |-> <<"d", "y">>,
                rows |-> [i \in 1 .. k + m |->
                            [d |-> Str(IF i <= k THEN "2024-01-01" ELSE "2024-01-02"),
                             y |-> Run(k, v, m, w)[i]]]]) :
     k \in 0 .. MaxRunRows, m \in 0 .. MaxRunRows, v \in RunCells, w \in RunCells}

InitRuns ==
  /\ raw = NoTable
  /\ route = NoRoute
  /\ table \in {t \in RunTables : Len(t.rows) <= MaxRunRows}
  /\ xs = NoSeries
  /\ ys = NoSeries
  /\ topK = 0
  /\ fn = "init"
  /\ ret = Null

RunsProfileTable ==
  /\ fn = "init"
  /\ ret' = profileTable(table)
  /\ fn' = "profileTable"
  /\ UNCHANGED <<route, raw, table, xs, ys, topK>>

RunsFirstDateTrend ==
  /\ fn = "init"
  /\ ret' = firstDateTrend(table)
  /\ fn' = "firstDateTrend"
  /\ UNCHANGED <<route, raw, table, xs, ys, topK>>

NextRuns == RunsProfileTable \/ RunsFirstDateTrend

SpecRuns == InitRuns /\ [][NextRuns]_vars

(***************************************************************************)
(* Claim about z-scores of small samples.                                  *)
(***************************************************************************)
\* The number of cells of column c that hold a number.
NumericValues(t, c) ==
  Cardinality({i \in 1 .. Len(t.rows) : HoldsNumber(Get(t.rows[i], c))})

\* C30: for a number column with 10 or fewer numeric values profileTable's
\* outliersZ is 0, and for 10 or fewer trend points firstDateTrend's
\* anomalies is 0.
C30_NoZOutlierUpToTen ==
  /\ fn = "profileTable" =>
       \A j \in 1 .. Len(ret) :
         (ret[j].numeric # Null /\ NumericValues(table, ret[j].name) <= 10)
           => ret[j].numeric.outliersZ = 0
  /\ (fn = "firstDateTrend" /\ ret # Null) =>
       (Len(ValidPoints(table, ret.dateCol, ret.numCol)) <= 10 => ret.anomalies = 0)

====
